---- MODULE Spec2Model ----
(***************************************************************************)
(* A model of the MyPL front end: Lexer (src/lexer.h), the recursive       *)
(* descent Parser (src/parser.h) and the Printer (src/printer.h).          *)
(*                                                                         *)
(* A source text is a sequence of characters, each character a string of  *)
(* length one.  The input stream of the Lexer is that sequence plus the    *)
(* number of characters already extracted (pos).                           *)
(***************************************************************************)
EXTENDS Integers, Sequences, FiniteSets, TLC

VARIABLES
  input,      \* the characters of the std::istream handed to the Lexer
  lex,        \* Lexer fields: stream position, line, column
  lexStatus,  \* "ready": no call in progress; "error": a call threw;
              \* "hang": a call is inside a loop that cannot exit
  lexErr,     \* the MyPLException thrown by Lexer::error (NoErr if none)
  tokens,     \* the tokens returned by next_token so far, in order
  starts,     \* for each returned token, the index in input of the first
              \* character that was not skipped before it was scanned
  spins,      \* iterations made by a loop that makes no progress (capped)
  mode,       \* "lexer": next_token is called directly; "parser": by parse
  pc,         \* position of Parser::parse: "start","loop","done","failed","hang","ub","off";
              \* after it "printed" (the Printer has run) and "reparsed"
  curr,       \* Parser::curr_token
  decls,      \* prog.decls of the Program passed to parse
  perr,       \* the MyPLException that left parse (NoErr if none)
  ubOutcome,  \* what the build did at undefined behaviour ("none" if no UB)
  out,        \* the characters the Printer wrote to std::cout
  second      \* the outcome of Parser::parse on the text in out

vars == <<input, lex, lexStatus, lexErr, tokens, starts, spins, mode, pc, curr,
          decls, perr, ubOutcome, out, second>>

-----------------------------------------------------------------------------
(* Bounds *)

\* longest generated lexer input, in characters
MaxLen == 4

\* how many iterations of a loop that cannot exit are followed
MaxSpin == 2

\* how many times next_token is called again after it returned EOS
MaxEosCalls == 2

\* most parameters of a generated function declaration
MaxParams == 2

\* most words of a generated text of arbitrary words at declaration level
MaxDeclWords == 3

-----------------------------------------------------------------------------
(* Characters *)

NL == "\n"
TAB == "\t"
CR == "\r"
FF == "\f"
DQ == "\""
SQ == "'"
BS == "\\"
HASH == "#"

\* the value peek() and get() yield at end of stream (EOF, as a char)
EOFc == "EOF"

\* std::isspace in the "C" locale (vertical tab is not written in any input here)
IsSpace(c) == c \in {" ", TAB, NL, CR, FF}

IsDigit(c) == c \in {"0", "1", "2", "3", "4", "5", "6", "7", "8", "9"}

LowerLetters ==
  {"a", "b", "c", "d", "e", "f", "g", "h", "i", "j", "k", "l", "m",
   "n", "o", "p", "q", "r", "s", "t", "u", "v", "w", "x", "y", "z"}

UpperLetters ==
  {"A", "B", "C", "D", "E", "F", "G", "H", "I", "J", "K", "L", "M",
   "N", "O", "P", "Q", "R", "S", "T", "U", "V", "W", "X", "Y", "Z"}

IsAlpha(c) == c \in LowerLetters \cup UpperLetters

\* the character with code 1
SOH == "SOH"

\* the grave accent (code 96), which a string of this module cannot hold
GRAVE == "GRAVE"

\* the printable characters in the order of their codes, 32 (blank) to 126
Ascii ==
  <<
    " ", "!", DQ, "#", "$", "%", "&", "'", "(", ")", "*", "+", ",", "-", ".", "/",
    "0", "1", "2", "3", "4", "5", "6", "7", "8", "9", ":", ";", "<", "=", ">", "?",
    "@", "A", "B", "C", "D", "E", "F", "G", "H", "I", "J", "K", "L", "M", "N", "O",
    "P", "Q", "R", "S", "T", "U", "V", "W", "X", "Y", "Z", "[", BS, "]", "^", "_",
    GRAVE, "a", "b", "c", "d", "e", "f", "g", "h", "i", "j", "k", "l", "m", "n", "o",
    "p", "q", "r", "s", "t", "u", "v", "w", "x", "y", "z", "{", "|", "}", "~" >>

\* the value of the character c as an integer (char converted to size_t)
CharCode(c) ==
  CASE c = TAB -> 9
    [] c = NL -> 10
    [] c = FF -> 12
    [] c = CR -> 13
    [] OTHER -> 31 + CHOOSE i \in DOMAIN Ascii : Ascii[i] = c

\* std::string(count, ch): count copies of the character ch
FillString(count, ch) == [i \in 1..count |-> ch]

-----------------------------------------------------------------------------
(* Token and exception values *)

Token(t, lexeme, line, column) ==
  [type |-> t, lexeme |-> lexeme, line |-> line, column |-> column]

\* a default-constructed Token (no token yet)
NoToken == Token("NONE", <<>>, 0, 0)

MyPLException(category, msg, found, line, column) ==
  [category |-> category, msg |-> msg, found |-> found,
   line |-> line, column |-> column]

NoErr == MyPLException("NONE", "", <<>>, 0, 0)

-----------------------------------------------------------------------------
(* Lexer *)

\* Lexer::Lexer: line(1), column(1); nothing extracted from the stream.
\* eof is the stream's end-of-file state (set once the end was hit).
LexerInit == [pos |-> 0, line |-> 1, column |-> 1, eof |-> FALSE]

\* Lexer::peek: the next character without extracting it
Peek(src, ls) ==
  IF ~ls.eof /\ ls.pos < Len(src) THEN src[ls.pos + 1] ELSE EOFc

\* Lexer::read: column++ and extract (extraction at end of stream extracts
\* nothing and leaves the stream in its end-of-file state)
Read(src, ls) ==
  [ls EXCEPT !.column = @ + 1,
             !.pos = IF @ < Len(src) THEN @ + 1 ELSE @,
             !.eof = @ \/ ls.pos >= Len(src)]

LexToken(ls, tok) == [kind |-> "token", tok |-> tok, ls |-> ls, err |-> NoErr]

\* Lexer::error: throw MyPLException(LEXER, msg, line, column)
LexError(ls, msg) ==
  [kind |-> "error", tok |-> NoToken, ls |-> ls,
   err |-> MyPLException("LEXER", msg, <<>>, ls.line, ls.column)]

\* the call is inside a loop whose condition can no longer change
LexHang(ls) == [kind |-> "hang", tok |-> NoToken, ls |-> ls, err |-> NoErr]

RECURSIVE CommentLine(_, _)
\* while(peek() != '\n') read();  -- at end of stream peek() stays EOF for ever
CommentLine(src, ls) ==
  IF Peek(src, ls) = NL THEN [hang |-> FALSE, ls |-> ls]
  ELSE IF Peek(src, ls) = EOFc THEN [hang |-> TRUE, ls |-> ls]
  ELSE CommentLine(src, Read(src, ls))

RECURSIVE CommentLoop(_, _)
\* while(comment){ ...; line++; column = 0; read(); if(peek() != '#') comment = false; }
CommentLoop(src, ls) ==
  LET r == CommentLine(src, ls) IN
  IF r.hang THEN r
  ELSE LET ls1 == Read(src, [r.ls EXCEPT !.line = @ + 1, !.column = 0]) IN
       IF Peek(src, ls1) # HASH THEN [hang |-> FALSE, ls |-> ls1]
       ELSE CommentLoop(src, ls1)

RECURSIVE SkipWhitespace(_, _)
\* while(std::isspace(peek()) || peek() == '#'){ ... }
SkipWhitespace(src, ls) ==
  LET c == Peek(src, ls) IN
  IF ~(IsSpace(c) \/ c = HASH) THEN [hang |-> FALSE, ls |-> ls]
  ELSE IF c = HASH THEN
         LET r == CommentLoop(src, Read(src, ls)) IN
         IF r.hang THEN r ELSE SkipWhitespace(src, r.ls)
  ELSE IF c = NL THEN
         SkipWhitespace(src, [Read(src, ls) EXCEPT !.line = @ + 1, !.column = 0])
  ELSE SkipWhitespace(src, Read(src, ls))

RECURSIVE StringLoop(_, _, _)
\* while(peek() != '\n' && peek() != '\"'){ if(peek() == '\\'){...} s += read(); }
StringLoop(src, ls, s) ==
  LET c == Peek(src, ls) IN
  IF c = NL \/ c = DQ THEN [hang |-> FALSE, ls |-> ls, s |-> s]
  ELSE IF c = EOFc THEN [hang |-> TRUE, ls |-> ls, s |-> s]
  ELSE IF c = BS THEN
         LET ls1 == Read(src, ls)
             s1  == Append(s, c)
             esc == Peek(src, ls1) = DQ
             ls2 == IF esc THEN Read(src, ls1) ELSE ls1
             s2  == IF esc THEN Append(s1, DQ) ELSE s1
         IN StringLoop(src, Read(src, ls2), Append(s2, Peek(src, ls2)))
  ELSE StringLoop(src, Read(src, ls), Append(s, c))

RECURSIVE IntDigits(_, _, _)
\* while(!std::isspace(peek()) && peek()!='.' && std::isdigit(peek())) lexeme += read();
IntDigits(src, ls, lexeme) ==
  LET c == Peek(src, ls) IN
  IF ~IsSpace(c) /\ c # "." /\ IsDigit(c)
  THEN IntDigits(src, Read(src, ls), Append(lexeme, c))
  ELSE [ls |-> ls, lexeme |-> lexeme]

RECURSIVE FracDigits(_, _, _)
\* while(!std::isspace(peek()) && std::isdigit(peek())) lexeme += read();
FracDigits(src, ls, lexeme) ==
  LET c == Peek(src, ls) IN
  IF ~IsSpace(c) /\ IsDigit(c)
  THEN FracDigits(src, Read(src, ls), Append(lexeme, c))
  ELSE [ls |-> ls, lexeme |-> lexeme]

RECURSIVE WordCharsNoUnderscore(_, _, _)
\* WordChars with the underscore forgotten in the loop condition
WordCharsNoUnderscore(src, ls, lexeme) ==
  LET c == Peek(src, ls) IN
  IF IsAlpha(c) \/ IsDigit(c)
  THEN WordCharsNoUnderscore(src, Read(src, ls), Append(lexeme, c))
  ELSE [ls |-> ls, lexeme |-> lexeme]

RECURSIVE WordChars(_, _, _)
\* while(std::isalpha(peek()) || peek() == '_' || std::isdigit(peek())) lexeme += read();
WordChars(src, ls, lexeme) ==
  LET c == Peek(src, ls) IN
  IF IsAlpha(c) \/ c = "_" \/ IsDigit(c)
  THEN WordChars(src, Read(src, ls), Append(lexeme, c))
  ELSE [ls |-> ls, lexeme |-> lexeme]

\* the if/else-if chain on the lexeme of a word
WordType(lexeme) ==
  CASE lexeme = <<"n","e","g">> -> "NEG"
    [] lexeme = <<"a","n","d">> -> "AND"
    [] lexeme = <<"o","r">> -> "OR"
    [] lexeme = <<"n","o","t">> -> "NOT"
    [] lexeme = <<"t","y","p","e">> -> "TYPE"
    [] lexeme = <<"w","h","i","l","e">> -> "WHILE"
    [] lexeme = <<"f","o","r">> -> "FOR"
    [] lexeme = <<"t","o">> -> "TO"
    [] lexeme = <<"d","o">> -> "DO"
    [] lexeme = <<"i","f">> -> "IF"
    [] lexeme = <<"t","h","e","n">> -> "THEN"
    [] lexeme = <<"e","l","s","e","i","f">> -> "ELSEIF"
    [] lexeme = <<"e","l","s","e">> -> "ELSE"
    [] lexeme = <<"e","n","d">> -> "END"
    [] lexeme = <<"f","u","n">> -> "FUN"
    [] lexeme = <<"v","a","r">> -> "VAR"
    [] lexeme = <<"r","e","t","u","r","n">> -> "RETURN"
    [] lexeme = <<"n","e","w">> -> "NEW"
    [] lexeme = <<"b","o","o","l">> -> "BOOL_TYPE"
    [] lexeme = <<"i","n","t">> -> "INT_TYPE"
    [] lexeme = <<"d","o","u","b","l","e">> -> "DOUBLE_TYPE"
    [] lexeme = <<"c","h","a","r">> -> "CHAR_TYPE"
    [] lexeme = <<"s","t","r","i","n","g">> -> "STRING_TYPE"
    [] lexeme = <<"n","i","l">> -> "NIL"
    [] lexeme = <<"t","r","u","e">> \/ lexeme = <<"f","a","l","s","e">> -> "BOOL_VAL"
    [] OTHER -> "ID"

\* the tokens made of one fixed character (first chain of else-ifs)
SimpleSymbol(c) ==
  CASE c = "," -> "COMMA"
    [] c = "(" -> "LPAREN"
    [] c = ")" -> "RPAREN"
    [] c = ":" -> "COLON"
    [] c = "+" -> "PLUS"
    [] c = "-" -> "MINUS"
    [] c = "*" -> "MULTIPLY"
    [] c = "/" -> "DIVIDE"
    [] c = "%" -> "MODULO"
    [] c = "." -> "DOT"
    [] OTHER -> "NONE"

\* RelSymbol with the kinds of "<" and "<=" exchanged
RelSymbolSwapped(c) ==
  CASE c = "=" -> <<"ASSIGN", "EQUAL">>
    [] c = "<" -> <<"LESS_EQUAL", "LESS">>
    [] c = ">" -> <<"GREATER", "GREATER_EQUAL">>
    [] OTHER -> <<"NONE", "NONE">>

\* '=', '<', '>': the kind when alone and the kind when followed by '='
RelSymbol(c) ==
  CASE c = "=" -> <<"ASSIGN", "EQUAL">>
    [] c = "<" -> <<"LESS", "LESS_EQUAL">>
    [] c = ">" -> <<"GREATER", "GREATER_EQUAL">>
    [] OTHER -> <<"NONE", "NONE">>

\* ScanEOS falling through to the final error once the stream has failed
ScanEOSOnce(src, ls0) ==
  IF ls0.eof
  THEN [kind |-> "error", tok |-> NoToken, ls |-> ls0,
        err |-> MyPLException("LEXER", "Unknown token ", <<>>, ls0.line, ls0.column)]
  ELSE LET ls1 == Read(src, ls0) IN
       [kind |-> "token", tok |-> Token("EOS", <<>>, ls1.line, ls1.column - 1),
        ls |-> ls1, err |-> NoErr]

\* if(peek() == EOF){ read(); return Token(EOS, "", line, column-1); }
ScanEOS(src, ls0) ==
  LET ls1 == Read(src, ls0) IN
  LexToken(ls1, Token("EOS", <<>>, ls1.line, ls1.column - 1))

\* error("Unknown token " + std::string(peek(),1), line, column): the two
\* arguments select std::string(count, ch), so the text after the message is
\* peek() copies of the character with code 1
UnknownToken(src, ls) ==
  [kind |-> "error", tok |-> NoToken, ls |-> ls,
   err |-> MyPLException("LEXER", "Unknown token ",
                         FillString(CharCode(Peek(src, ls)), SOH),
                         ls.line, ls.column)]

\* ScanInt returning the digit run whatever character follows it
ScanIntAnyFollower(src, i) ==
  LexToken(i.ls, Token("INT_VAL", i.lexeme, i.ls.line,
                       i.ls.column - Len(i.lexeme)))

\* else if(!std::isalpha(peek())) return Token(INT_VAL, ...); and otherwise
\* the end of the else-if chain, which leads to the final error
ScanInt(src, i) ==
  IF ~IsAlpha(Peek(src, i.ls))
  THEN LexToken(i.ls, Token("INT_VAL", i.lexeme, i.ls.line,
                            i.ls.column - Len(i.lexeme)))
  ELSE UnknownToken(src, i.ls)

\* the part of next_token after whitespace and comments were skipped
ScanToken(src, ls0) ==
  LET c   == Peek(src, ls0)
      ls1 == Read(src, ls0)
      c1  == Peek(src, ls1)
  IN
  IF c = EOFc THEN ScanEOS(src, ls0)
  ELSE IF SimpleSymbol(c) # "NONE" THEN
    LexToken(ls1, Token(SimpleSymbol(c), <<c>>, ls1.line, ls1.column - 1))
  ELSE IF RelSymbol(c)[1] # "NONE" THEN
    IF c1 = "="
    THEN LET ls2 == Read(src, ls1) IN
         LexToken(ls2, Token(RelSymbol(c)[2], <<c, "=">>, ls2.line, ls2.column - 2))
    ELSE LexToken(ls1, Token(RelSymbol(c)[1], <<c>>, ls1.line, ls1.column - 1))
  ELSE IF c = "!" THEN
    IF c1 = "="
    THEN LET ls2 == Read(src, ls1) IN
         LexToken(ls2, Token("NOT_EQUAL", <<"!", "=">>, ls2.line, ls2.column - 2))
    ELSE LexError(ls1, "! is invalid syntax")
  ELSE IF c = SQ THEN
    IF c1 = SQ THEN LexError(ls1, "'' is an invalid char")
    ELSE LET ls2 == Read(src, ls1) IN
         IF Peek(src, ls2) = SQ
         THEN LET ls3 == Read(src, ls2) IN
              LexToken(ls3, Token("CHAR_VAL", <<c1>>, ls3.line, ls3.column - 3))
         ELSE LexError(ls2, "Expecting '")
  ELSE IF c = DQ THEN
    LET r == StringLoop(src, ls1, <<>>) IN
    IF r.hang THEN LexHang(r.ls)
    ELSE IF Peek(src, r.ls) = NL
         THEN LexError(Read(src, r.ls), "Expecting \"")
         ELSE LET ls2 == Read(src, r.ls) IN
              LexToken(ls2, Token("STRING_VAL", r.s, ls2.line,
                                  ls2.column - Len(r.s) - 2))
  ELSE IF IsDigit(c) THEN
    LET i == IntDigits(src, ls1, <<c>>) IN
    IF Peek(src, i.ls) = "." THEN
      LET f == FracDigits(src, Read(src, i.ls), Append(i.lexeme, ".")) IN
      IF ~IsDigit(Peek(src, f.ls)) /\ ~IsSpace(Peek(src, f.ls))
      THEN LexError(f.ls, "Invalid double value")
      ELSE LexToken(f.ls, Token("DOUBLE_VAL", f.lexeme, f.ls.line,
                                f.ls.column - Len(f.lexeme)))
    ELSE ScanInt(src, i)
  ELSE IF IsAlpha(c) THEN
    LET w == WordChars(src, ls1, <<c>>) IN
    LexToken(w.ls, Token(WordType(w.lexeme), w.lexeme, w.ls.line,
                         w.ls.column - Len(w.lexeme)))
  ELSE UnknownToken(src, ls0)

\* where the skip loop of a call from ls stops: the index (1-based) of the
\* first character of the token the call scans
TokenStart(src, ls) == SkipWhitespace(src, ls).ls.pos + 1

\* Lexer::next_token: one call, from the Lexer fields ls
next_token(src, ls) ==
  LET sk == SkipWhitespace(src, ls) IN
  IF sk.hang THEN LexHang(sk.ls) ELSE ScanToken(src, sk.ls)

-----------------------------------------------------------------------------
(* AST nodes as their constructors leave them.  A pointer field holds Null
   until the parser stores a node in it. *)

Null == [node |-> "null"]

IsNull(x) == "node" \in DOMAIN x /\ x.node = "null"

NewTypeDecl == [node |-> "TypeDecl", id |-> NoToken, vdecls |-> <<>>]

NewFunDecl ==
  [node |-> "FunDecl", return_type |-> NoToken, id |-> NoToken,
   params |-> <<>>, stmts |-> <<>>]

FunParam(id, type) == [id |-> id, type |-> type]

NewVarDeclStmt ==
  [node |-> "VarDeclStmt", id |-> NoToken, type |-> Null, expr |-> Null]

NewAssignStmt == [node |-> "AssignStmt", lvalue_list |-> <<>>, expr |-> Null]

NewReturnStmt == [node |-> "ReturnStmt", expr |-> Null]

NewBasicIf == [node |-> "BasicIf", expr |-> Null, stmts |-> <<>>]

NewIfStmt ==
  [node |-> "IfStmt", if_part |-> Null, else_ifs |-> <<>>, body_stmts |-> <<>>]

NewWhileStmt == [node |-> "WhileStmt", expr |-> Null, stmts |-> <<>>]

NewForStmt ==
  [node |-> "ForStmt", var_id |-> NoToken, start |-> Null, end |-> Null,
   stmts |-> <<>>]

NewExpr ==
  [node |-> "Expr", negated |-> FALSE, first |-> Null, op |-> Null, rest |-> Null]

NewSimpleTerm == [node |-> "SimpleTerm", rvalue |-> Null]

NewComplexTerm == [node |-> "ComplexTerm", expr |-> Null]

NewSimpleRValue == [node |-> "SimpleRValue", value |-> NoToken]

NewNewRValue == [node |-> "NewRValue", type_id |-> NoToken]

NewCallExpr == [node |-> "CallExpr", function_id |-> NoToken, arg_list |-> <<>>]

NewIDRValue == [node |-> "IDRValue", path |-> <<>>]

NewNegatedRValue == [node |-> "NegatedRValue", expr |-> Null]

-----------------------------------------------------------------------------
(* Parser.  A parser state ps holds the Parser's Lexer (ls), curr_token
   (curr), the tokens pulled so far (toks, starts) and how control stands:
   "ok", "error" (an exception is propagating, err), "hang" (next_token does
   not return) or "ub" (a write through a null pointer happened).  Every
   function is the identity on a state that is not "ok", as the code it
   models is not executed then.  Functions return the state and the value
   left in their reference parameter. *)

R(ps, val) == [ps |-> ps, val |-> val]

\* a store through a null pointer: undefined behaviour
UB(ps) == [ps EXCEPT !.status = "ub"]

\* Parser::advance giving a failure of next_token the category SYNTAX
advance_setRelabelled(ps, r, start) ==
  IF r.kind = "token"
  THEN [ps EXCEPT !.ls = r.ls, !.curr = r.tok, !.toks = Append(@, r.tok),
                  !.starts = Append(@, start)]
  ELSE IF r.kind = "error"
  THEN [ps EXCEPT !.ls = r.ls, !.status = "error",
                  !.err = [r.err EXCEPT !.category = "SYNTAX"]]
  ELSE [ps EXCEPT !.ls = r.ls, !.status = "hang"]

\* a call of a member function f from inside Parser: Call(f, src, R(ps, x)) is
\* f(src, ps, x) for a function of Parser, and Call("next_token", src, R(ls, x))
\* is lexer.next_token() on the Lexer fields ls
RECURSIVE Call(_, _, _)

\* Parser::advance: curr_token = lexer.next_token()
advance_set(ps, r, start) ==
  IF r.kind = "token"
  THEN [ps EXCEPT !.ls = r.ls, !.curr = r.tok, !.toks = Append(@, r.tok),
                  !.starts = Append(@, start)]
  ELSE IF r.kind = "error"
  THEN [ps EXCEPT !.ls = r.ls, !.status = "error", !.err = r.err]
  ELSE [ps EXCEPT !.ls = r.ls, !.status = "hang"]

advance(src, ps) ==
  IF ps.status # "ok" THEN ps
  ELSE advance_set(ps, Call("next_token", src, R(ps.ls, NoToken)),
                   TokenStart(src, ps.ls))

\* Parser::error reporting the position of the first token of the program
\* instead of that of curr_token
errorAtStart(ps, err_msg) ==
  IF ps.status # "ok" THEN ps
  ELSE [ps EXCEPT !.status = "error",
                  !.err = MyPLException("SYNTAX", err_msg, ps.curr.lexeme,
                                        ps.toks[1].line, ps.toks[1].column)]

\* Parser::error: throw MyPLException(SYNTAX, err_msg + "found '" + lexeme + "'",
\* curr_token.line(), curr_token.column())
error(ps, err_msg) ==
  IF ps.status # "ok" THEN ps
  ELSE [ps EXCEPT !.status = "error",
                  !.err = MyPLException("SYNTAX", err_msg, ps.curr.lexeme,
                                        ps.curr.line, ps.curr.column)]

\* Parser::eat pulling a token before it reports a mismatch
eatThenError(src, ps, t, err_msg) ==
  IF ps.status # "ok" THEN ps
  ELSE IF ps.curr.type = t THEN advance(src, ps)
  ELSE error(advance(src, ps), err_msg)

\* Parser::eat
eat(src, ps, t, err_msg) ==
  IF ps.status # "ok" THEN ps
  ELSE IF ps.curr.type = t THEN advance(src, ps) ELSE error(ps, err_msg)

\* Parser::is_operator
is_operator(t) ==
  t \in {"PLUS", "MINUS", "DIVIDE", "MULTIPLY", "MODULO", "AND", "OR", "EQUAL",
         "LESS", "GREATER", "LESS_EQUAL", "GREATER_EQUAL", "NOT_EQUAL"}

\* the kinds tested by Parser::dtype
IsDType(t) ==
  t \in {"INT_TYPE", "DOUBLE_TYPE", "BOOL_TYPE", "CHAR_TYPE", "STRING_TYPE", "ID"}

\* the kinds tested by Parser::pval (and the first branch of Parser::rvalue)
IsPVal(t) ==
  t \in {"INT_VAL", "DOUBLE_VAL", "BOOL_VAL", "CHAR_VAL", "STRING_VAL"}

\* the kinds tested by Parser::stmts
StartsStmt(t) == t \in {"VAR", "ID", "IF", "WHILE", "FOR", "RETURN"}

\* the kinds tested by Parser::args
StartsArg(t) ==
  t \in {"NOT", "LPAREN", "NIL", "NEW", "NEG", "INT_VAL", "DOUBLE_VAL",
         "BOOL_VAL", "CHAR_VAL", "STRING_VAL", "ID"}

\* The statements of a function body are written as a pipeline over pairs
\* r = R(ps, node): the parser state reached and the node being filled.

\* advance() as a statement of a body
Advance(src, r) == R(advance(src, r.ps), r.val)

\* eat(t, err_msg) as a statement of a body
Eat(src, r, t, err_msg) == R(eat(src, r.ps, t, err_msg), r.val)

\* node->field = curr_token
SetCurr(r, field) == R(r.ps, [r.val EXCEPT ![field] = r.ps.curr])

\* node->field.push_back(curr_token)
PushCurr(r, field) == R(r.ps, [r.val EXCEPT ![field] = Append(@, r.ps.curr)])

\* node->field = part, part being the node built by the calls that gave r
Store(node, field, r) == R(r.ps, [node EXCEPT ![field] = r.val])

\* f(node->field): the value f leaves in its reference parameter is stored
CallInto(f, src, r, field) ==
  Store(r.val, field, Call(f, src, R(r.ps, r.val[field])))

\* node->field.push_back(part)
PushInto(node, field, r) == R(r.ps, [node EXCEPT ![field] = Append(@, r.val)])

\* list.push_back(part)
PushBack(list, r) == R(r.ps, Append(list, r.val))

\* Parser::dtype(Token& dType): dType is the Token written (Null when the
\* reference was formed from a null Token*)
dtype(src, ps, dType) ==
  IF ps.status # "ok" THEN R(ps, dType)
  ELSE IF IsDType(ps.curr.type)
       THEN IF IsNull(dType) THEN R(UB(ps), dType)
            ELSE R(advance(src, ps), ps.curr)
       ELSE R(error(ps, "invalid declared type "), dType)

\* Parser::pval
pval(src, ps, pVal) ==
  IF ps.status # "ok" THEN R(ps, pVal)
  ELSE IF IsPVal(ps.curr.type) THEN R(advance(src, ps), ps.curr)
       ELSE R(error(ps, "expecting value "), pVal)

\* Parser::op(Token*& op): *op = curr_token
op(src, ps, opTok) ==
  IF ps.status # "ok" THEN R(ps, opTok)
  ELSE IF is_operator(ps.curr.type)
       THEN IF IsNull(opTok) THEN R(UB(ps), opTok)
            ELSE R(advance(src, ps), ps.curr)
       ELSE R(error(ps, "expecting operator "), opTok)

\* Parser::idrval: while(DOT){ advance(); path.push_back(curr_token); eat(ID) }
idrval(src, ps, idrVal) ==
  IF ps.status = "ok" /\ ps.curr.type = "DOT"
  THEN Call("idrval", src,
            Eat(src, PushCurr(R(advance(src, ps), idrVal), "path"),
                "ID", "expecting id "))
  ELSE R(ps, idrVal)

\* lvalue_list.push_back(curr_token) in Parser::lvalue
lvalue_push(ps, lvalue_list) == R(ps, Append(lvalue_list, ps.curr))

\* Parser::lvalue: while(DOT){ advance(); lvalue_list.push_back(curr_token); eat(ID) }
lvalue(src, ps, lvalue_list) ==
  IF ps.status = "ok" /\ ps.curr.type = "DOT"
  THEN Call("lvalue", src,
            Eat(src, lvalue_push(advance(src, ps), lvalue_list),
                "ID", "expecting id "))
  ELSE R(ps, lvalue_list)

\* exp->first = term in Parser::expr, a store through exp
expr_set_first(exp, r) ==
  IF r.ps.status # "ok" THEN R(r.ps, exp)
  ELSE IF IsNull(exp) THEN R(UB(r.ps), exp)
  ELSE R(r.ps, [exp EXCEPT !.first = r.val])

\* Parser::expr, the if / else if / else that builds exp->first
expr_first(src, ps, exp) ==
  IF ps.curr.type = "NOT" THEN
    \* exp->negated = true comes first
    IF IsNull(exp) THEN R(UB(ps), exp)
    ELSE expr_set_first([exp EXCEPT !.negated = TRUE],
                        CallInto("expr", src, R(advance(src, ps), NewComplexTerm),
                                 "expr"))
  ELSE IF ps.curr.type = "LPAREN" THEN
    Eat(src,
        expr_set_first(exp,
                       CallInto("expr", src, R(advance(src, ps), NewComplexTerm),
                                "expr")),
        "RPAREN", "expecting ')' ")
  ELSE
    expr_set_first(exp, CallInto("rvalue", src, R(ps, NewSimpleTerm), "rvalue"))

\* Parser::expr, if(is_operator(...)){ op(exp->op); expr(exp->rest); }
expr_rest(src, r) ==
  IF r.ps.status = "ok" /\ is_operator(r.ps.curr.type)
  THEN CallInto("expr", src, CallInto("op", src, r, "op"), "rest")
  ELSE r

\* Parser::expr(Expr*& exp): exp is the node exp points to, Null for a null pointer
expr(src, ps, exp) ==
  IF ps.status # "ok" THEN R(ps, exp)
  ELSE expr_rest(src, expr_first(src, ps, exp))

\* Parser::rvalue, the NEW branch after advance()
rvalue_new(src, ps) ==
  R(eat(src, ps, "ID", "expecting type id "),
    [NewNewRValue EXCEPT !.type_id = ps.curr])

\* Parser::rvalue, the ID branch after advance(): the identifier read (id)
\* is not stored in the path of the IDRValue
rvalue_id(src, ps, id) ==
  IF ps.status = "ok" /\ ps.curr.type = "LPAREN"
  THEN Call("call_expr", src, R(ps, [NewCallExpr EXCEPT !.function_id = id]))
  ELSE Call("idrval", src, R(ps, NewIDRValue))

\* Parser::rvalue(RValue*& rVal): rVal is left as it was when no branch applies
rvalue(src, ps, rVal) ==
  IF ps.status # "ok" THEN R(ps, rVal)
  ELSE IF IsPVal(ps.curr.type) THEN
    CallInto("pval", src, R(ps, NewSimpleRValue), "value")
  ELSE IF ps.curr.type = "NIL" THEN
    Advance(src, SetCurr(R(ps, NewSimpleRValue), "value"))
  ELSE IF ps.curr.type = "NEW" THEN
    rvalue_new(src, advance(src, ps))
  ELSE IF ps.curr.type = "ID" THEN
    rvalue_id(src, advance(src, ps), ps.curr)
  ELSE IF ps.curr.type = "NEG" THEN
    CallInto("expr", src, R(advance(src, ps), NewNegatedRValue), "expr")
  ELSE R(ps, rVal)

\* Parser::call_expr
call_expr(src, ps, cExpr) ==
  Eat(src,
      CallInto("args", src,
               R(eat(src, ps, "LPAREN", "expecting '(' "), cExpr), "arg_list"),
      "RPAREN", "expecting ')' ")

\* Parser::args
args(src, ps, arg_list) ==
  IF ps.status = "ok" /\ StartsArg(ps.curr.type)
  THEN Call("argsLoop", src,
            PushBack(arg_list, Call("expr", src, R(ps, NewExpr))))
  ELSE R(ps, arg_list)

\* the loop of Parser::args: while(COMMA){ advance(); args(arg_list); }
argsLoop(src, ps, arg_list) ==
  IF ps.status = "ok" /\ ps.curr.type = "COMMA"
  THEN Call("argsLoop", src, Call("args", src, R(advance(src, ps), arg_list)))
  ELSE R(ps, arg_list)

\* Parser::vdecl_stmt, if(COLON){ advance(); dtype(*vDecl->type); }
vdecl_stmt_type(src, r) ==
  IF r.ps.status = "ok" /\ r.ps.curr.type = "COLON"
  THEN CallInto("dtype", src, Advance(src, r), "type")
  ELSE r

\* Parser::vdecl_stmt
vdecl_stmt(src, ps, vDecl) ==
  CallInto("expr", src,
           Eat(src,
               vdecl_stmt_type(src,
                               Eat(src, SetCurr(R(advance(src, ps), vDecl), "id"),
                                   "ID", "expecting id ")),
               "ASSIGN", "expecting '=' "),
           "expr")

\* Parser::assign_stmt
assign_stmt(src, ps, aStmt) ==
  CallInto("expr", src,
           Eat(src, CallInto("lvalue", src, R(ps, aStmt), "lvalue_list"),
               "ASSIGN", "expecting '=' "),
           "expr")

\* Parser::exit_stmt
exit_stmt(src, ps, rStmt) ==
  CallInto("expr", src, R(advance(src, ps), rStmt), "expr")

\* Parser::stmts
stmts(src, ps, stms) ==
  IF ps.status = "ok" /\ StartsStmt(ps.curr.type)
  THEN Call("stmts", src, Call("stmt", src, R(ps, stms)))
  ELSE R(ps, stms)

\* Parser::stmt, the ID branch after advance(): nothing is appended when
\* the token after the identifier is none of ( = .
stmt_id(src, ps, id, stms) ==
  IF ps.status = "ok" /\ ps.curr.type = "LPAREN" THEN
    PushBack(stms, Call("call_expr", src,
                        R(ps, [NewCallExpr EXCEPT !.function_id = id])))
  ELSE IF ps.status = "ok" /\ ps.curr.type \in {"ASSIGN", "DOT"} THEN
    PushBack(stms, Call("assign_stmt", src,
                        R(ps, [NewAssignStmt EXCEPT !.lvalue_list = <<id>>])))
  ELSE R(ps, stms)

\* Parser::stmt
stmt(src, ps, stms) ==
  IF ps.status # "ok" THEN R(ps, stms)
  ELSE IF ps.curr.type = "VAR" THEN
    PushBack(stms, Call("vdecl_stmt", src, R(ps, NewVarDeclStmt)))
  ELSE IF ps.curr.type = "ID" THEN
    stmt_id(src, advance(src, ps), ps.curr, stms)
  ELSE IF ps.curr.type = "IF" THEN
    PushBack(stms, Call("cond_stmt", src, R(ps, NewIfStmt)))
  ELSE IF ps.curr.type = "WHILE" THEN
    PushBack(stms, Call("while_stmt", src, R(ps, NewWhileStmt)))
  ELSE IF ps.curr.type = "FOR" THEN
    PushBack(stms, Call("for_stmt", src, R(ps, NewForStmt)))
  ELSE IF ps.curr.type = "RETURN" THEN
    PushBack(stms, Call("exit_stmt", src, R(ps, NewReturnStmt)))
  ELSE R(ps, stms)

\* BasicIf* part = new BasicIf(); expr(part->expr); eat(THEN); stmts(part->stmts)
\* in Parser::cond_stmt (ifPart) and Parser::condt (elseIf), after advance()
basic_if(src, ps) ==
  CallInto("stmts", src,
           Eat(src, CallInto("expr", src, R(ps, NewBasicIf), "expr"),
               "THEN", "expecting 'then' keyword "),
           "stmts")

\* Parser::cond_stmt
cond_stmt(src, ps, iStmt) ==
  Eat(src,
      Call("condt", src,
           Store(iStmt, "if_part", basic_if(src, advance(src, ps)))),
      "END", "expecting 'end' keyword ")

\* Parser::condt
condt(src, ps, iStmt) ==
  IF ps.status # "ok" THEN R(ps, iStmt)
  ELSE IF ps.curr.type = "ELSEIF" THEN
    Call("condt", src,
         PushInto(iStmt, "else_ifs", basic_if(src, advance(src, ps))))
  ELSE IF ps.curr.type = "ELSE" THEN
    CallInto("stmts", src, R(advance(src, ps), iStmt), "body_stmts")
  ELSE R(ps, iStmt)

\* Parser::while_stmt
while_stmt(src, ps, wStmt) ==
  Eat(src,
      CallInto("stmts", src,
               Eat(src, CallInto("expr", src, R(advance(src, ps), wStmt), "expr"),
                   "DO", "expecting 'do' keyword "),
               "stmts"),
      "END", "expecting 'end' keyword ")

\* Parser::for_stmt, up to and including expr(fStmt->start)
for_stmt_start(src, ps, fStmt) ==
  CallInto("expr", src,
           Eat(src,
               Eat(src, SetCurr(R(advance(src, ps), fStmt), "var_id"),
                   "ID", "expecting id "),
               "ASSIGN", "expecting '=' "),
           "start")

\* Parser::for_stmt
for_stmt(src, ps, fStmt) ==
  Eat(src,
      CallInto("stmts", src,
               Eat(src,
                   CallInto("expr", src,
                            Eat(src, for_stmt_start(src, ps, fStmt),
                                "TO", "expecting 'to' keyword "),
                            "end"),
                   "DO", "expecting 'do' keyword "),
               "stmts"),
      "END", "expecting 'end' keyword")

\* Parser::vdecls
vdecls(src, ps, vdecs) ==
  IF ps.status = "ok" /\ ps.curr.type = "VAR"
  THEN Call("vdecls", src,
            PushBack(vdecs, Call("vdecl_stmt", src, R(ps, NewVarDeclStmt))))
  ELSE R(ps, vdecs)

\* Parser::tdecl
tdecl(src, ps, tDec) ==
  Eat(src,
      CallInto("vdecls", src,
               Eat(src, SetCurr(R(advance(src, ps), tDec), "id"),
                   "ID", "expecting variable ID "),
               "vdecls"),
      "END", "expecting 'END' keyword ")

\* Parser::params, the ID branch up to dtype(p.type): the FunParam p that is
\* filled is a local and is not appended to the list (ps in the code, plist
\* here)
params_p(plist, id, r) ==
  LET p == FunParam(id, r.val) IN R(r.ps, plist)

\* the loop of Parser::params: while(COMMA){ advance(); params(ps); }
paramsLoop(src, ps, plist) ==
  IF ps.status = "ok" /\ ps.curr.type = "COMMA"
  THEN Call("paramsLoop", src, Call("params", src, R(advance(src, ps), plist)))
  ELSE R(ps, plist)

\* Parser::params refusing an empty parameter list
paramsRequired(src, ps, plist) ==
  IF ps.status # "ok" THEN R(ps, plist)
  ELSE IF ps.curr.type = "ID" THEN
    Call("paramsLoop", src,
         params_p(plist, ps.curr,
                  Call("dtype", src,
                       R(eat(src, advance(src, ps), "COLON", "expecting ':' "),
                         NoToken))))
  ELSE R(error(ps, "invalid parameter "), plist)

\* Parser::params
params(src, ps, plist) ==
  IF ps.status # "ok" THEN R(ps, plist)
  ELSE IF ps.curr.type = "ID" THEN
    Call("paramsLoop", src,
         params_p(plist, ps.curr,
                  Call("dtype", src,
                       R(eat(src, advance(src, ps), "COLON", "expecting ':' "),
                         NoToken))))
  ELSE IF ps.curr.type # "RPAREN" THEN R(error(ps, "invalid parameter "), plist)
  ELSE R(ps, plist)

\* Parser::fdecl, the return type after advance()
fdecl_return_type(src, r) ==
  IF r.ps.status = "ok" /\ r.ps.curr.type = "NIL"
  THEN Advance(src, SetCurr(r, "return_type"))
  ELSE CallInto("dtype", src, r, "return_type")

\* Parser::fdecl
fdecl(src, ps, fDec) ==
  Eat(src,
      CallInto("stmts", src,
               Eat(src,
                   CallInto("params", src,
                            Eat(src,
                                Eat(src,
                                    SetCurr(fdecl_return_type(
                                              src, R(advance(src, ps), fDec)),
                                            "id"),
                                    "ID", "expecting variable ID "),
                                "LPAREN", "expecting '(' "),
                            "params"),
                   "RPAREN", "expecting ')' "),
               "stmts"),
      "END", "expecting 'END' keyword ")

\* the member functions reached through Call
Call(f, src, r) ==
  CASE f = "next_token"  -> next_token(src, r.ps)
    [] f = "dtype"       -> dtype(src, r.ps, r.val)
    [] f = "pval"        -> pval(src, r.ps, r.val)
    [] f = "op"          -> op(src, r.ps, r.val)
    [] f = "idrval"      -> idrval(src, r.ps, r.val)
    [] f = "lvalue"      -> lvalue(src, r.ps, r.val)
    [] f = "expr"        -> expr(src, r.ps, r.val)
    [] f = "rvalue"      -> rvalue(src, r.ps, r.val)
    [] f = "call_expr"   -> call_expr(src, r.ps, r.val)
    [] f = "args"        -> args(src, r.ps, r.val)
    [] f = "argsLoop"    -> argsLoop(src, r.ps, r.val)
    [] f = "vdecl_stmt"  -> vdecl_stmt(src, r.ps, r.val)
    [] f = "assign_stmt" -> assign_stmt(src, r.ps, r.val)
    [] f = "exit_stmt"   -> exit_stmt(src, r.ps, r.val)
    [] f = "stmts"       -> stmts(src, r.ps, r.val)
    [] f = "stmt"        -> stmt(src, r.ps, r.val)
    [] f = "cond_stmt"   -> cond_stmt(src, r.ps, r.val)
    [] f = "condt"       -> condt(src, r.ps, r.val)
    [] f = "while_stmt"  -> while_stmt(src, r.ps, r.val)
    [] f = "for_stmt"    -> for_stmt(src, r.ps, r.val)
    [] f = "vdecls"      -> vdecls(src, r.ps, r.val)
    [] f = "params"      -> params(src, r.ps, r.val)
    [] f = "paramsLoop"  -> paramsLoop(src, r.ps, r.val)
    [] f = "tdecl"       -> tdecl(src, r.ps, r.val)
    [] f = "fdecl"       -> fdecl(src, r.ps, r.val)

\* a Parser built from a fresh Lexer
NewParser ==
  [ls |-> LexerInit, curr |-> NoToken, toks |-> <<>>, starts |-> <<>>,
   status |-> "ok", err |-> NoErr]

\* prog.decls.push_back(decl), which an exception on the way skips
pushDecl(ds, r) == IF r.ps.status = "ok" THEN PushBack(ds, r) ELSE R(r.ps, ds)

RECURSIVE parseLoop(_, _)
\* Parser::parse from its loop on, in one piece: r holds the parser state and
\* prog.decls.  At a token that is neither TYPE, FUN nor EOS the loop goes
\* round without end.
parseLoop(src, r) ==
  IF r.ps.status # "ok" THEN r
  ELSE IF r.ps.curr.type = "EOS"
  THEN R(eat(src, r.ps, "EOS", "expecting end-of-file "), r.val)
  ELSE IF r.ps.curr.type = "TYPE"
  THEN parseLoop(src, pushDecl(r.val, Call("tdecl", src, R(r.ps, NewTypeDecl))))
  ELSE IF r.ps.curr.type = "FUN"
  THEN parseLoop(src, pushDecl(r.val, Call("fdecl", src, R(r.ps, NewFunDecl))))
  ELSE R([r.ps EXCEPT !.status = "hang"], r.val)

\* Parser::parse on a new Parser for the text src, in one piece
parse(src) == parseLoop(src, R(advance(src, NewParser), <<>>))

-----------------------------------------------------------------------------
(* Printer (src/printer.h).  What the Printer writes to std::cout is a
   sequence of characters.  node->accept(this) on a null pointer is
   undefined behaviour; it is written as the mark UBc in the output, and the
   step that runs the Printer turns it into an outcome of the build.
   src/printer.h holds the header twice under the one include guard
   PRINTER_H: the preprocessor keeps the first text (lines 9-262) and skips
   the second (lines 272-562), so the first is the Printer modelled here. *)

\* the mark left in the output by a call through a null pointer
UBc == "UB"

\* Printer::get_indent: std::string(indent, ' ')
get_indent(indent) == [i \in 1..indent |-> " "]

\* node->accept(this): the visit function of the node's class
RECURSIVE accept(_, _)

RECURSIVE acceptStmts(_, _, _)
\* for(Stmt* s: stmts){ std::cout << get_indent(); s->accept(this); }
acceptStmts(stms, indent, i) ==
  IF i > Len(stms) THEN <<>>
  ELSE get_indent(indent) \o accept(stms[i], indent)
       \o acceptStmts(stms, indent, i + 1)

RECURSIVE printParams(_, _)
\* the loop of visit(FunDecl&) over node.params: ", " follows every parameter
\* whose id has not the lexeme of the last parameter's id
printParams(params_list, i) ==
  IF i > Len(params_list) THEN <<>>
  ELSE params_list[i].id.lexeme \o <<":", " ">> \o params_list[i].type.lexeme
       \o (IF params_list[i].id.lexeme = params_list[Len(params_list)].id.lexeme
           THEN <<>> ELSE <<",", " ">>)
       \o printParams(params_list, i + 1)

\* Printer::visit(FunDecl&)
visit_FunDecl(node, indent) ==
  get_indent(indent) \o <<"f", "u", "n", " ">> \o node.return_type.lexeme \o <<" ">>
    \o node.id.lexeme \o <<"(">> \o printParams(node.params, 1) \o <<")", NL>>
    \o acceptStmts(node.stmts, indent + 3, 1)
    \o <<"e", "n", "d">> \o <<NL, NL>>

RECURSIVE acceptVDecls(_, _, _)
\* for(VarDeclStmt* vDecl: node.vdecls){ std::cout << get_indent() << "  ";
\* vDecl->accept(this); }
acceptVDecls(vdecs, indent, i) ==
  IF i > Len(vdecs) THEN <<>>
  ELSE get_indent(indent) \o <<" ", " ">> \o accept(vdecs[i], indent)
       \o acceptVDecls(vdecs, indent, i + 1)

\* Printer::visit(TypeDecl&)
visit_TypeDecl(node, indent) ==
  get_indent(indent) \o <<"t", "y", "p", "e", " ">> \o node.id.lexeme \o <<NL>>
    \o acceptVDecls(node.vdecls, indent, 1)
    \o get_indent(indent) \o <<"e", "n", "d">> \o <<NL, NL>>

\* Printer::visit(VarDeclStmt&)
visit_VarDeclStmt(node, indent) ==
  <<"v", "a", "r", " ">> \o node.id.lexeme
    \o (IF IsNull(node.type) THEN <<>> ELSE <<":", " ">> \o node.type.lexeme)
    \o <<" ", "=", " ">> \o accept(node.expr, indent) \o <<NL>>

RECURSIVE printLValues(_, _)
\* the loop of visit(AssignStmt&) over node.lvalue_list: " = " follows every
\* token that has the lexeme of the last one, "." every other token
printLValues(lvalue_list, i) ==
  IF i > Len(lvalue_list) THEN <<>>
  ELSE lvalue_list[i].lexeme
       \o (IF lvalue_list[i].lexeme = lvalue_list[Len(lvalue_list)].lexeme
           THEN <<" ", "=", " ">> ELSE <<".">>)
       \o printLValues(lvalue_list, i + 1)

\* Printer::visit(AssignStmt&)
visit_AssignStmt(node, indent) ==
  printLValues(node.lvalue_list, 1) \o accept(node.expr, indent) \o <<NL>>

\* Printer::visit(ReturnStmt&)
visit_ReturnStmt(node, indent) ==
  <<"r", "e", "t", "u", "r", "n", " ">> \o accept(node.expr, indent) \o <<NL>>

RECURSIVE printElseIfs(_, _, _)
\* the loop of visit(IfStmt&) over node.else_ifs
printElseIfs(else_ifs, indent, i) ==
  IF i > Len(else_ifs) THEN <<>>
  ELSE <<NL>> \o <<"e", "l", "s", "e", "i", "f", " ">>
       \o accept(else_ifs[i].expr, indent)
       \o <<" ", "t", "h", "e", "n">> \o <<NL>>
       \o acceptStmts(else_ifs[i].stmts, indent + 3, 1)
       \o printElseIfs(else_ifs, indent, i + 1)

\* Printer::visit(IfStmt&)
visit_IfStmt(node, indent) ==
  IF IsNull(node.if_part) THEN <<"i", "f", " ">> \o <<UBc>>
  ELSE <<"i", "f", " ">> \o accept(node.if_part.expr, indent)
       \o <<" ", "t", "h", "e", "n">> \o <<NL>>
       \o acceptStmts(node.if_part.stmts, indent + 3, 1)
       \o printElseIfs(node.else_ifs, indent, 1)
       \o (IF Len(node.body_stmts) > 0
           THEN <<NL>> \o <<"e", "l", "s", "e">> \o <<NL>>
                \o acceptStmts(node.body_stmts, indent + 3, 1)
           ELSE <<>>)
       \o <<NL>> \o <<"e", "n", "d">> \o <<NL>>

\* Printer::visit(WhileStmt&)
visit_WhileStmt(node, indent) ==
  <<"w", "h", "i", "l", "e", " ">> \o accept(node.expr, indent) \o <<" ", "d", "o">> \o <<NL>>
    \o acceptStmts(node.stmts, indent + 3, 1) \o <<"e", "n", "d">> \o <<NL>>

\* Printer::visit(ForStmt&): nothing is written after the statements
visit_ForStmt(node, indent) ==
  <<"f", "o", "r", " ">> \o node.var_id.lexeme \o <<"=">> \o accept(node.start, indent)
    \o <<" ", "t", "o", " ">> \o accept(node.end, indent) \o <<" ", "d", "o">> \o <<NL>>
    \o acceptStmts(node.stmts, indent + 3, 1)

\* Printer::visit(Expr&)
visit_Expr(node, indent) ==
  (IF node.negated THEN <<"n", "o", "t", " ">> ELSE <<>>)
    \o accept(node.first, indent)
    \o (IF IsNull(node.op) THEN <<>>
        ELSE node.op.lexeme \o accept(node.rest, indent))

\* Printer::visit(SimpleTerm&)
visit_SimpleTerm(node, indent) == accept(node.rvalue, indent)

\* Printer::visit(ComplexTerm&)
visit_ComplexTerm(node, indent) == accept(node.expr, indent)

\* Printer::visit(SimpleRValue&)
visit_SimpleRValue(node, indent) ==
  IF node.value.type = "STRING_VAL" THEN <<DQ>> \o node.value.lexeme \o <<DQ>>
  ELSE IF node.value.type = "CHAR_VAL" THEN <<SQ>> \o node.value.lexeme \o <<SQ>>
  ELSE node.value.lexeme

\* Printer::visit(NewRValue&)
visit_NewRValue(node, indent) == <<"n", "e", "w", " ">> \o node.type_id.lexeme

RECURSIVE printArgs(_, _, _)
\* the arguments of visit(CallExpr&): ", " after each one but the last
printArgs(arg_list, indent, i) ==
  IF i > Len(arg_list) THEN <<>>
  ELSE accept(arg_list[i], indent)
       \o (IF i < Len(arg_list) THEN <<",", " ">> ELSE <<>>)
       \o printArgs(arg_list, indent, i + 1)

\* Printer::visit(CallExpr&)
visit_CallExpr(node, indent) ==
  node.function_id.lexeme \o <<"(">> \o printArgs(node.arg_list, indent, 1)
    \o <<")">>

RECURSIVE printPath(_, _)
\* the loop of visit(IDRValue&) over node.path: "." follows every token that
\* has not the lexeme of the last one
printPath(path, i) ==
  IF i > Len(path) THEN <<>>
  ELSE path[i].lexeme
       \o (IF path[i].lexeme = path[Len(path)].lexeme THEN <<>> ELSE <<".">>)
       \o printPath(path, i + 1)

\* Printer::visit(IDRValue&)
visit_IDRValue(node, indent) == printPath(node.path, 1)

\* Printer::visit(NegatedRValue&)
visit_NegatedRValue(node, indent) ==
  <<"n", "o", "t", " ">> \o accept(node.expr, indent) \o <<NL>>

accept(node, indent) ==
  IF IsNull(node) THEN <<UBc>>
  ELSE CASE node.node = "FunDecl"       -> visit_FunDecl(node, indent)
         [] node.node = "TypeDecl"      -> visit_TypeDecl(node, indent)
         [] node.node = "VarDeclStmt"   -> visit_VarDeclStmt(node, indent)
         [] node.node = "AssignStmt"    -> visit_AssignStmt(node, indent)
         [] node.node = "ReturnStmt"    -> visit_ReturnStmt(node, indent)
         [] node.node = "IfStmt"        -> visit_IfStmt(node, indent)
         [] node.node = "WhileStmt"     -> visit_WhileStmt(node, indent)
         [] node.node = "ForStmt"       -> visit_ForStmt(node, indent)
         [] node.node = "Expr"          -> visit_Expr(node, indent)
         [] node.node = "SimpleTerm"    -> visit_SimpleTerm(node, indent)
         [] node.node = "ComplexTerm"   -> visit_ComplexTerm(node, indent)
         [] node.node = "SimpleRValue"  -> visit_SimpleRValue(node, indent)
         [] node.node = "NewRValue"     -> visit_NewRValue(node, indent)
         [] node.node = "CallExpr"      -> visit_CallExpr(node, indent)
         [] node.node = "IDRValue"      -> visit_IDRValue(node, indent)
         [] node.node = "NegatedRValue" -> visit_NegatedRValue(node, indent)

RECURSIVE visit_Program(_, _)
\* Printer::visit(Program&): for(Decl* d : node.decls) d->accept(this);
\* (the declarations from the i-th on; indent is 0 at top level)
visit_Program(ds, i) ==
  IF i > Len(ds) THEN <<>> ELSE accept(ds[i], 0) \o visit_Program(ds, i + 1)

-----------------------------------------------------------------------------
(* Source texts *)

\* all sequences over S of length 0..n
SeqsUpTo(S, n) == UNION {[1..k -> S] : k \in 0..n}

\* whitespace, newlines, comments and string literals around a word
SkipTexts == SeqsUpTo({"x", " ", NL, HASH, DQ}, MaxLen)

\* numeric literals and what may follow them
NumberTexts == SeqsUpTo({"1", ".", " ", "x", ")"}, MaxLen)

\* an opening double quote and what may follow it
StringTexts == {<<DQ>> \o t : t \in SeqsUpTo({DQ, BS, "a", NL}, MaxLen)}

\* an opening single quote and what may follow it, at the start of the text
\* or after one blank or one newline
CharTexts ==
  {p \o <<SQ>> \o t : p \in {<<>>, <<" ">>, <<NL>>},
                       t \in SeqsUpTo({SQ, "a", " ", NL}, MaxLen - 1)}

\* one- and two-character operators
OperatorTexts == SeqsUpTo({"<", "=", "!", " "}, MaxLen)

\* a "!" and what may follow it, at the start of the text or after one blank
\* or one newline
BangTexts ==
  {p \o <<"!">> \o t : p \in {<<>>, <<" ">>, <<NL>>},
                        t \in SeqsUpTo({"=", "!", "x", " "}, MaxLen - 2)}

\* characters that start no token
UnknownChars == {"@", "$", "_", "{", ";"}

\* a character that starts no token, at the start of the text or after one
\* blank or one newline, alone or followed by a letter
UnknownTexts ==
  {p \o <<c>> \o t : p \in {<<>>, <<" ">>, <<NL>>}, c \in UnknownChars,
                      t \in {<<>>, <<"x">>}}

\* what stands before a comment on its line
CommentLeads ==
  { <<>>, <<"x">>, <<"x", " ">>, <<"1">>, <<"1", ".", "5">>, <<"<">>,
    <<DQ, "a", DQ>>, <<SQ, "a", SQ>>, <<DQ, HASH, DQ>>, <<SQ, HASH, SQ>> }

\* a comment closed by its newline: after nothing, after a token on the same
\* line, alone on its line, followed by nothing, a word, a blank line or
\* another comment line
CommentTexts ==
  {l \o <<HASH>> \o c \o <<NL>> \o t :
     l \in CommentLeads,
     c \in {<<>>, <<"c">>, <<DQ>>, <<"c", HASH>>},
     t \in {<<>>, <<"y">>, <<NL, "y">>, <<HASH, "d", NL, "y">>}}

\* a string literal that holds an escaped double quote, with a blank and a
\* double quote after it
EscapedQuoteTexts ==
  {<<DQ>> \o b \o <<BS, DQ, DQ, " ", DQ>> \o t :
     b \in {<<>>, <<"a">>}, t \in {<<>>, <<" ", "x">>}}

\* the reserved words, each with the token kind it stands for
ReservedTable ==
  { << <<"t","y","p","e">>, "TYPE" >>,
    << <<"f","u","n">>, "FUN" >>,
    << <<"v","a","r">>, "VAR" >>,
    << <<"i","f">>, "IF" >>,
    << <<"t","h","e","n">>, "THEN" >>,
    << <<"e","l","s","e","i","f">>, "ELSEIF" >>,
    << <<"e","l","s","e">>, "ELSE" >>,
    << <<"e","n","d">>, "END" >>,
    << <<"w","h","i","l","e">>, "WHILE" >>,
    << <<"f","o","r">>, "FOR" >>,
    << <<"t","o">>, "TO" >>,
    << <<"d","o">>, "DO" >>,
    << <<"r","e","t","u","r","n">>, "RETURN" >>,
    << <<"n","e","w">>, "NEW" >>,
    << <<"n","i","l">>, "NIL" >>,
    << <<"n","o","t">>, "NOT" >>,
    << <<"n","e","g">>, "NEG" >>,
    << <<"a","n","d">>, "AND" >>,
    << <<"o","r">>, "OR" >>,
    << <<"i","n","t">>, "INT_TYPE" >>,
    << <<"d","o","u","b","l","e">>, "DOUBLE_TYPE" >>,
    << <<"b","o","o","l">>, "BOOL_TYPE" >>,
    << <<"c","h","a","r">>, "CHAR_TYPE" >>,
    << <<"s","t","r","i","n","g">>, "STRING_TYPE" >> }

ReservedWords == {p[1] : p \in ReservedTable}

\* the two words of the boolean literals
BoolWords == { <<"t","r","u","e">>, <<"f","a","l","s","e">> }

LowerSeq ==
  <<"a", "b", "c", "d", "e", "f", "g", "h", "i", "j", "k", "l", "m",
    "n", "o", "p", "q", "r", "s", "t", "u", "v", "w", "x", "y", "z">>

UpperSeq ==
  <<"A", "B", "C", "D", "E", "F", "G", "H", "I", "J", "K", "L", "M",
    "N", "O", "P", "Q", "R", "S", "T", "U", "V", "W", "X", "Y", "Z">>

\* the word w with its first letter in upper case
Capitalized(w) ==
  <<UpperSeq[CHOOSE i \in 1..26 : LowerSeq[i] = w[1]]>> \o Tail(w)

\* words: the reserved words and boolean literals, each also with one more
\* character, without its last character and capitalized; short identifiers
WordTexts ==
  LET ws == ReservedWords \cup BoolWords IN
  ws \cup {Append(w, c) : w \in ws, c \in {"x", "1", "_"}}
     \cup {SubSeq(w, 1, Len(w) - 1) : w \in ws}
     \cup {Capitalized(w) : w \in ws}
     \cup SeqsUpTo({"a", "_", "1"}, MaxLen)

LexerTexts ==
  SkipTexts \cup NumberTexts \cup StringTexts \cup CharTexts \cup OperatorTexts
    \cup BangTexts \cup UnknownTexts \cup WordTexts \cup CommentTexts
    \cup EscapedQuoteTexts

\* the characters of a word of a generated program; a word that is not
\* listed is a single character
Spell(w) ==
  CASE w = "type" -> <<"t","y","p","e">>
    [] w = "fun" -> <<"f","u","n">>
    [] w = "var" -> <<"v","a","r">>
    [] w = "end" -> <<"e","n","d">>
    [] w = "int" -> <<"i","n","t">>
    [] w = "nil" -> <<"n","i","l">>
    [] w = "new" -> <<"n","e","w">>
    [] w = "not" -> <<"n","o","t">>
    [] w = "neg" -> <<"n","e","g">>
    [] w = "and" -> <<"a","n","d">>
    [] w = "or" -> <<"o","r">>
    [] w = "if" -> <<"i","f">>
    [] w = "then" -> <<"t","h","e","n">>
    [] w = "elseif" -> <<"e","l","s","e","i","f">>
    [] w = "else" -> <<"e","l","s","e">>
    [] w = "while" -> <<"w","h","i","l","e">>
    [] w = "for" -> <<"f","o","r">>
    [] w = "to" -> <<"t","o">>
    [] w = "do" -> <<"d","o">>
    [] w = "return" -> <<"r","e","t","u","r","n">>
    [] w = "<=" -> <<"<","=">>
    [] w = "==" -> <<"=","=">>
    [] w = "!=" -> <<"!","=">>
    [] w = "true" -> <<"t","r","u","e">>
    [] w = "1.5" -> <<"1",".","5">>
    [] w = "'a'" -> <<SQ,"a",SQ>>
    [] w = "\"a\"" -> <<DQ,"a",DQ>>
    [] OTHER -> <<w>>

RECURSIVE Text(_)
\* the words ws written with one space between them
Text(ws) ==
  IF ws = <<>> THEN <<>>
  ELSE IF Len(ws) = 1 THEN Spell(ws[1])
  ELSE Spell(ws[1]) \o <<" ">> \o Text(Tail(ws))

\* arbitrary words where declarations are expected
DeclWordTexts ==
  {Text(ws) : ws \in SeqsUpTo({"type", "fun", "var", "T", "end", "int", "#"},
                               MaxDeclWords)}

\* well-formed parameters: an identifier and a type each
ParamLists == SeqsUpTo({"x", "y"} \X {"int", "T"}, MaxParams)

RECURSIVE ParamWords(_)
\* the words of a parameter list: id : type , id : type ...
ParamWords(pl) ==
  IF pl = <<>> THEN <<>>
  ELSE <<pl[1][1], ":", pl[1][2]>>
       \o (IF Len(pl) = 1 THEN <<>> ELSE <<",">> \o ParamWords(Tail(pl)))

\* fun rt f ( params ) body end
FunWords(rt, pl, body) ==
  <<"fun", rt, "f", "(">> \o ParamWords(pl) \o <<")">> \o body \o <<"end">>

\* the operators used in generated operator chains
ChainOps == {"+", "*", "<=", "and"}

\* a op1 b op2 c written flat, grouped to the right and grouped to the left
ChainWords(o1, o2, form) ==
  CASE form = "flat"  -> <<"1", o1, "2", o2, "3">>
    [] form = "right" -> <<"1", o1, "(", "2", o2, "3", ")">>
    [] form = "left"  -> <<"(", "1", o1, "2", ")", o2, "3">>

ChainForms == {"flat", "right", "left"}

\* argument lists with a comma that no argument follows
DanglingCommaArgs ==
  { <<"1", ",">>, <<"1", ",", ",", "2">>, <<"x", ",", "y", ",">> }

\* parameter lists with a comma that no parameter follows
DanglingCommaParams ==
  { <<"x", ":", "int", ",">>, <<"x", ":", "int", ",", ",", "y", ":", "T">>,
    <<"x", ":", "int", ",", "y", ":", "T", ",">> }

\* fun int f ( ... ) end with such a parameter list, or with a call g ( ... )
\* with such an argument list as body
DanglingCommaTexts ==
  {Text(<<"fun", "int", "f", "(">> \o pw \o <<")", "end">>) :
     pw \in DanglingCommaParams}
  \cup {Text(FunWords("int", <<>>, <<"g", "(">> \o a \o <<")">>)) :
          a \in DanglingCommaArgs}

\* one argument that begins with not or with a parenthesis
PrefixedExprArgs ==
  { <<"not", "x">>, <<"(", "x", ")">>, <<"not", "x", "and", "y">>,
    <<"(", "x", ")", "and", "y">> }

\* argument lists of a call
ArgWordLists ==
  { <<>>, <<"x">>, <<"x", ".", "y">>, <<"x", ".", "y", ".", "z">>, <<"1">>,
    <<"nil">>, <<"new", "T">>, <<"h", "(", ")">>, <<"h", "(", "x", ")">>,
    <<"x", ",", "y">>, <<"1", ",", "x", ".", "y">>, <<"1", "+", "2">>,
    <<"(", "1", ")">>, <<"not", "x">>, <<"neg", "1">> }
  \cup PrefixedExprArgs
  \cup DanglingCommaArgs
  \cup {ChainWords(o1, o2, f) : o1 \in ChainOps, o2 \in ChainOps, f \in ChainForms}

\* statement lists in which a token that cannot start an expression stands
\* where an expression is required (the token is the ")" or "end" that follows)
ExprlessBodies ==
  { <<"return">>, <<"x", "=">>, <<"g", "(", "neg", ")">>,
    <<"g", "(", "1", "+", ")">>, <<"g", "(", "(", ")", ")">>,
    <<"g", "(", "not", ")">> }

\* statement lists with a malformed character sequence
LexErrorBodies ==
  { <<"g", "(", "!", ")">>, <<"g", "(", "?", ")">>, <<"g", "(", SQ, ")">>,
    <<"g", "(", "1", ",", "!", ")">>, <<"!">>, <<"x", "?">> }

\* statement lists that begin with an identifier followed by neither ( = nor .
StrayIdBodies == { <<"x">>, <<"x", "g", "(", ")">>, <<"x", "y", "(", "1", ")">> }

\* statement lists of a function body
BodyWordLists ==
  StrayIdBodies \cup ExprlessBodies \cup LexErrorBodies \cup
  {<<"g", "(">> \o a \o <<")">> : a \in ArgWordLists}
  \cup { <<>>, <<"x", "=", "1">>, <<"x", ".", "y", "=", "1">>,
         <<"var", "x", "=", "1">>, <<"var", "x", ":", "int", "=", "1">>,
         <<"return", "1">>, <<"return", "x">>, <<"return", "end">>,
         <<"g", "(", "x", ")", "g", "(", "y", ".", "z", ")">>,
         <<"while", "x", "do", "end">>, <<"if", "x", "then", "end">>,
         <<"for", "i", "=", "1", "to", "2", "do", "end">> }

\* parameter lists in which the ":" of a parameter is missing, each with the
\* index (among the tokens of fun int f ( ... ) end) of the token that follows
\* the identifier of that parameter
MissingColonParams ==
  { [words |-> <<"x">>, after |-> 6],
    [words |-> <<"x", "int">>, after |-> 6],
    [words |-> <<"x", ",", "y", ":", "int">>, after |-> 6],
    [words |-> <<"x", ":", "int", ",", "y">>, after |-> 10] }

\* fun int f ( ... ) end with the parameter words pw, on line 1 or after nl
\* empty lines
MissingColonText(pw, nl) ==
  [i \in 1..nl |-> NL] \o Text(<<"fun", "int", "f", "(">> \o pw \o <<")", "end">>)

MissingColonTexts ==
  {MissingColonText(c.words, nl) : c \in MissingColonParams, nl \in 0..1}

\* fun rt f() end written without blanks around the parentheses
CompactEmptyFun(rt) == Text(<<"fun", rt>>) \o <<" ", "f", "(", ")", " ">> \o Spell("end")

\* function declarations: every parameter list with an empty body, and
\* every body without parameters
FunTexts ==
  {Text(FunWords(rt, pl, <<>>)) : rt \in {"int", "nil", "T"}, pl \in ParamLists}
  \cup {Text(FunWords("int", <<>>, b)) : b \in BodyWordLists}
  \cup {CompactEmptyFun(rt) : rt \in {"int", "nil", "T"}}
  \cup DanglingCommaTexts
  \cup MissingColonTexts

\* type declarations
TypeWordLists ==
  { <<"type", "T", "end">>,
    <<"type", "T", "var", "x", "=", "1", "end">>,
    <<"type", "T", "var", "x", ":", "int", "=", "1", "end">> }

\* programs of two declarations, the second one complete, absent or cut short
TwoDeclTexts ==
  LET ds == TypeWordLists \cup {FunWords("int", <<>>, <<>>),
                                FunWords("nil", <<>>, <<"g", "(", "x", ")">>)}
  IN {Text(d1 \o d2) : d1 \in ds,
                        d2 \in ds \cup {<<"var">>, <<"x">>, <<"type">>,
                                       <<"type", "!">>, <<"fun", "int">>}}

\* the argument lists of ArgWordLists that are well formed, and literals of
\* the other kinds
ValidArgWordLists ==
  (ArgWordLists \ DanglingCommaArgs)
  \cup { <<"1.5">>, <<"'a'">>, <<"\"a\"">>, <<"true">>, <<"x", ".", "y", ".", "y">>,
         <<"1", ",", "2", ",", "3">> }

\* well-formed statement lists of every kind of statement
ValidStmtBodies ==
  { <<>>, <<"x", "=", "1">>, <<"x", ".", "y", "=", "1">>,
    <<"var", "x", "=", "1">>, <<"var", "x", ":", "int", "=", "1">>,
    <<"return", "1">>, <<"return", "x">>,
    <<"g", "(", "x", ")", "g", "(", "y", ".", "z", ")">>,
    <<"g", "(", "1", ")", "g", "(", "2", ")">>,
    <<"while", "x", "do", "end">>, <<"if", "x", "then", "end">>,
    <<"for", "i", "=", "1", "to", "2", "do", "end">>,
    <<"x", "=", "y", "and", "z">>, <<"x", "=", "(", "1", "+", "2", ")", "*", "3">>,
    <<"x", "=", "neg", "1">> }

\* syntactically valid programs
ValidTexts ==
  {Text(FunWords(rt, pl, <<>>)) : rt \in {"int", "nil", "T"}, pl \in ParamLists}
  \cup {Text(FunWords("int", <<>>, <<"g", "(">> \o a \o <<")">>)) :
          a \in ValidArgWordLists}
  \cup {Text(FunWords("int", <<>>, b)) : b \in ValidStmtBodies}
  \cup {Text(t) : t \in TypeWordLists}
  \cup {Text(d1 \o d2) :
          d1 \in {<<"type", "T", "end">>, FunWords("int", <<>>, <<>>)},
          d2 \in {<<"type", "T", "end">>,
                  FunWords("nil", <<>>, <<"g", "(", "1", ")">>)}}

\* conditionals: the number of elseif clauses, whether an else clause is
\* written, and what is written after the else clause
CondForms ==
  {c \in [elseifs : 0..2, else : BOOLEAN, tail : {"none", "elseif", "else"}] :
     c.tail # "none" => c.else}

RECURSIVE ElseIfWords(_)
\* n clauses elseif y then
ElseIfWords(n) ==
  IF n = 0 THEN <<>> ELSE <<"elseif", "y", "then">> \o ElseIfWords(n - 1)

\* if x then g ( ) (elseif y then)* (else h ( ))? tail end
CondWords(c) ==
  <<"if", "x", "then", "g", "(", ")">> \o ElseIfWords(c.elseifs)
    \o (IF c.else THEN <<"else", "h", "(", ")">> ELSE <<>>)
    \o (CASE c.tail = "none" -> <<>>
           [] c.tail = "elseif" -> <<"elseif", "y", "then">>
           [] c.tail = "else" -> <<"else">>)
    \o <<"end">>

\* a function whose body is the conditional c
CondText(c) == Text(FunWords("int", <<>>, CondWords(c)))

ParserTexts ==
  DeclWordTexts \cup FunTexts \cup {Text(t) : t \in TypeWordLists} \cup TwoDeclTexts
  \cup {CondText(c) : c \in CondForms}

-----------------------------------------------------------------------------
(* The Lexer driven directly: next_token is called again and again *)

\* no second parse was made
NoSecond == [status |-> "none", decls |-> <<>>, err |-> NoErr]

\* how many of the returned tokens are EOS
CountEOS(toks) == Cardinality({i \in DOMAIN toks : toks[i].type = "EOS"})

InitLexer ==
  /\ input \in LexerTexts
  /\ lex = LexerInit
  /\ lexStatus = "ready"
  /\ lexErr = NoErr
  /\ tokens = <<>>
  /\ starts = <<>>
  /\ spins = 0
  /\ mode = "lexer"
  /\ pc = "off"
  /\ curr = NoToken
  /\ decls = <<>>
  /\ perr = NoErr
  /\ ubOutcome = "none"
  /\ out = <<>>
  /\ second = NoSecond

\* a caller calls lexer.next_token()
NextToken ==
  /\ mode = "lexer"
  /\ lexStatus = "ready"
  /\ CountEOS(tokens) <= MaxEosCalls
  /\ LET r == next_token(input, lex) IN
     /\ lex' = r.ls
     /\ lexStatus' = IF r.kind = "token" THEN "ready" ELSE r.kind
     /\ lexErr' = r.err
     /\ tokens' = IF r.kind = "token" THEN Append(tokens, r.tok) ELSE tokens
     /\ starts' = IF r.kind = "token"
                  THEN Append(starts, TokenStart(input, lex)) ELSE starts
  /\ UNCHANGED <<input, spins, mode, pc, curr, decls, perr, ubOutcome, out,
                 second>>

\* one more iteration of a loop of next_token whose condition reads peek()
\* at end of stream: read() again
HangRead ==
  /\ lexStatus = "hang"
  /\ spins < MaxSpin
  /\ lex' = Read(input, lex)
  /\ spins' = spins + 1
  /\ UNCHANGED <<input, lexStatus, lexErr, tokens, starts, mode, pc, curr,
                 decls, perr, ubOutcome, out, second>>

NextLexer == NextToken \/ HangRead

Spec == InitLexer /\ [][NextLexer]_vars

-----------------------------------------------------------------------------
(* The Parser: Parser::parse on a Parser built from a fresh Lexer *)

\* what a store through a null pointer does in a build
UBOutcomes == {"segfault", "memory corrupted"}

InitParser ==
  /\ input \in ParserTexts
  /\ lex = LexerInit
  /\ lexStatus = "ready"
  /\ lexErr = NoErr
  /\ tokens = <<>>
  /\ starts = <<>>
  /\ spins = 0
  /\ mode = "parser"
  /\ pc = "start"
  /\ curr = NoToken
  /\ decls = <<>>
  /\ perr = NoErr
  /\ ubOutcome = "none"
  /\ out = <<>>
  /\ second = NoSecond

\* the parser state held in the variables while parse runs
PState ==
  [ls |-> lex, curr |-> curr, toks |-> tokens, starts |-> starts,
   status |-> "ok", err |-> NoErr]

\* the variables after a piece of parse that reached parser state ps: control
\* goes to next with prog.decls = newDecls unless ps is not "ok"; an
\* exception leaves parse, a null store is undefined behaviour
Leave(ps, next, newDecls) ==
  /\ lex' = ps.ls
  /\ curr' = ps.curr
  /\ tokens' = ps.toks
  /\ starts' = ps.starts
  /\ pc' = CASE ps.status = "ok" -> next
             [] ps.status = "error" -> "failed"
             [] ps.status = "hang" -> "hang"
             [] ps.status = "ub" -> "ub"
  /\ perr' = IF ps.status = "error" THEN ps.err ELSE perr
  /\ lexStatus' = IF ps.status = "hang" THEN "hang"
                  ELSE IF ps.status = "error" /\ ps.err.category = "LEXER"
                       THEN "error" ELSE lexStatus
  /\ lexErr' = IF ps.status = "error" /\ ps.err.category = "LEXER"
               THEN ps.err ELSE lexErr
  /\ decls' = IF ps.status = "ok" THEN newDecls ELSE decls
  /\ ubOutcome' \in (IF ps.status = "ub" THEN UBOutcomes ELSE {ubOutcome})
  /\ UNCHANGED <<input, mode, out, second>>

\* LeaveDecl putting the new declaration in front of the earlier ones
LeaveDeclFront(r) == Leave(r.ps, "loop", <<r.val>> \o decls)

\* prog.decls.push_back(decl) after tdecl / fdecl gave r
LeaveDecl(r) == Leave(r.ps, "loop", Append(decls, r.val))

\* parse: the advance() before the loop
ParseBegin ==
  /\ mode = "parser"
  /\ pc = "start"
  /\ Leave(advance(input, PState), "loop", decls)
  /\ UNCHANGED spins

\* parse: one iteration of while (curr_token.type() != EOS)
ParseLoop ==
  /\ mode = "parser"
  /\ pc = "loop"
  /\ curr.type # "EOS"
  /\ curr.type \in {"TYPE", "FUN"} \/ spins < MaxSpin
  /\ IF curr.type = "TYPE"
     THEN LeaveDecl(tdecl(input, PState, NewTypeDecl)) /\ UNCHANGED spins
     ELSE IF curr.type = "FUN"
     THEN LeaveDecl(fdecl(input, PState, NewFunDecl)) /\ UNCHANGED spins
     ELSE \* neither branch: the iteration changes nothing
          /\ spins' = spins + 1
          /\ UNCHANGED <<input, lex, lexStatus, lexErr, tokens, starts, mode, pc,
                         curr, decls, perr, ubOutcome, out, second>>

\* parse: eat(EOS, ...) after the loop, and return
ParseEnd ==
  /\ mode = "parser"
  /\ pc = "loop"
  /\ curr.type = "EOS"
  /\ Leave(eat(input, PState, "EOS", "expecting end-of-file "), "done", decls)
  /\ UNCHANGED spins

NextParser == ParseBegin \/ ParseLoop \/ ParseEnd \/ HangRead

SpecParser == InitParser /\ [][NextParser]_vars

-----------------------------------------------------------------------------
(* The round trip: Parser::parse on a valid program, the Printer on the
   Program it filled, and Parser::parse of a new Parser on the printed text *)

InitRoundTrip ==
  /\ input \in ValidTexts
  /\ lex = LexerInit
  /\ lexStatus = "ready"
  /\ lexErr = NoErr
  /\ tokens = <<>>
  /\ starts = <<>>
  /\ spins = 0
  /\ mode = "parser"
  /\ pc = "start"
  /\ curr = NoToken
  /\ decls = <<>>
  /\ perr = NoErr
  /\ ubOutcome = "none"
  /\ out = <<>>
  /\ second = NoSecond

\* the Printer has written text; a call through a null pointer on the way is
\* undefined behaviour
WriteOut(text) ==
  /\ out' = text
  /\ pc' = IF \E i \in DOMAIN text : text[i] = UBc THEN "ub" ELSE "printed"
  /\ ubOutcome' \in (IF \E i \in DOMAIN text : text[i] = UBc
                     THEN UBOutcomes ELSE {ubOutcome})

\* prog.accept(printer) after parse returned
RunPrinter ==
  /\ mode = "parser"
  /\ pc = "done"
  /\ WriteOut(visit_Program(decls, 1))
  /\ UNCHANGED <<input, lex, lexStatus, lexErr, tokens, starts, spins, mode,
                 curr, decls, perr, second>>

\* what a parse that reached r leaves: how it ended and prog.decls
SecondOf(r) == [status |-> r.ps.status, decls |-> r.val, err |-> r.ps.err]

\* Parser(Lexer(out)).parse(prog2) on the printed text
Reparse ==
  /\ pc = "printed"
  /\ second' = SecondOf(parse(out))
  /\ pc' = "reparsed"
  /\ UNCHANGED <<input, lex, lexStatus, lexErr, tokens, starts, spins, mode,
                 curr, decls, perr, ubOutcome, out>>

NextRoundTrip == ParseBegin \/ ParseLoop \/ ParseEnd \/ RunPrinter \/ Reparse

SpecRoundTrip == InitRoundTrip /\ [][NextRoundTrip]_vars

-----------------------------------------------------------------------------
(* Positions in a source text, counted independently of the Lexer *)

\* index of the last newline before index p (0 if none)
LastNewlineBefore(src, p) ==
  LET nls == {k \in 1..(p - 1) : k <= Len(src) /\ src[k] = NL} IN
  IF nls = {} THEN 0 ELSE CHOOSE k \in nls : \A j \in nls : j <= k

\* 1-based column of the character at index p
TrueColumn(src, p) == p - LastNewlineBefore(src, p)

\* 1-based line of the character at index p
TrueLine(src, p) ==
  1 + Cardinality({k \in 1..(p - 1) : k <= Len(src) /\ src[k] = NL})

\* the first call of next_token has ended (returned, thrown) or hangs
FirstCallOver == tokens # <<>> \/ lexStatus # "ready"

\* the first call returned a token of kind k with lexeme l
FirstTokenIs(k, l) ==
  /\ tokens # <<>>
  /\ tokens[1].type = k
  /\ tokens[1].lexeme = l

\* the kinds of the returned tokens, in order
Kinds(toks) == [i \in DOMAIN toks |-> toks[i].type]

-----------------------------------------------------------------------------
(* Claims about the Lexer *)

\* C2: every call of next_token ends: it returns a token or raises a lexical
\* error, also when the input ends inside a comment or a string literal.
\* (Violated: on "#" the comment loop reads at end of stream for ever.)
C2_NextTokenEnds == lexStatus \in {"ready", "error"}

\* C3: once next_token has returned EOS, every later call returns EOS too
\* and raises no error.
C3_EosIsSticky ==
  \A i \in DOMAIN tokens :
    tokens[i].type = "EOS" =>
      /\ lexStatus = "ready"
      /\ \A j \in i..Len(tokens) : tokens[j].type = "EOS"

\* C3 witness: EOS was returned three times after a token that is not EOS
C3_Witness ==
  /\ Len(tokens) >= 4
  /\ tokens[1].type # "EOS"
  /\ CountEOS(tokens) >= 3

\* C4: every token carries the 1-based column of the first character of its
\* lexeme.  (Violated: after a newline skipped as whitespace column is 0, so
\* the first token of the next line gets column 0.)
C4_ColumnIsLexemeStart ==
  \A i \in DOMAIN tokens :
    tokens[i].type # "EOS" => tokens[i].column = TrueColumn(input, starts[i])

\* length of the longest prefix of src that is digits "." digits (0 if none)
DoublePrefixLen(src) ==
  LET ok == {n \in 3..Len(src) :
               \E d \in 2..(n - 1) :
                 /\ src[d] = "."
                 /\ \A k \in (1..n) \ {d} : IsDigit(src[k])} IN
  IF ok = {} THEN 0 ELSE CHOOSE n \in ok : \A m \in ok : m <= n

\* the character after the first n characters of src
Follower(src, n) == IF n < Len(src) THEN src[n + 1] ELSE EOFc

\* C5: digits "." digits is one DOUBLE_VAL token with exactly that lexeme,
\* whatever follows it: whitespace, end of input, ")" ...
\* (Violated: unless whitespace follows, the Lexer raises "Invalid double value".)
C5_DoubleIsOneToken ==
  LET n == DoublePrefixLen(input) IN
  (n > 0 /\ (IsSpace(Follower(input, n)) \/ Follower(input, n) \in {EOFc, ")"})
     /\ FirstCallOver)
    => FirstTokenIs("DOUBLE_VAL", SubSeq(input, 1, n))

\* C6 as stated: "<" yields LESS, "<=" yields LESS_EQUAL, "<==" yields
\* LESS_EQUAL followed by EQUAL.
\* (Violated: the "=" left after "<=" is alone, and a lone "=" is ASSIGN.)
C6_Original ==
  /\ (input = <<"<">> /\ Len(tokens) >= 1) => tokens[1].type = "LESS"
  /\ (input = <<"<", "=">> /\ Len(tokens) >= 1) => tokens[1].type = "LESS_EQUAL"
  /\ (input = <<"<", "=", "=">> /\ Len(tokens) >= 2) =>
        (tokens[1].type = "LESS_EQUAL" /\ tokens[2].type = "EQUAL")

\* C6 amended: "<" yields LESS, "<=" yields LESS_EQUAL, "<==" yields
\* LESS_EQUAL followed by ASSIGN (the lone "="), each then followed by EOS and
\* with no error: the input is never merged into one token.
C6_OperatorDisambiguation ==
  LET upTo(n) == Kinds(SubSeq(tokens, 1, n)) IN
  /\ input \in { <<"<">>, <<"<", "=">>, <<"<", "=", "=">> } => lexStatus = "ready"
  /\ (input = <<"<">> /\ Len(tokens) >= 2) => upTo(2) = <<"LESS", "EOS">>
  /\ (input = <<"<", "=">> /\ Len(tokens) >= 2) => upTo(2) = <<"LESS_EQUAL", "EOS">>
  /\ (input = <<"<", "=", "=">> /\ Len(tokens) >= 3) =>
        upTo(3) = <<"LESS_EQUAL", "ASSIGN", "EOS">>

\* C6 witness: "<==" was scanned to its end
C6_Witness == input = <<"<", "=", "=">> /\ Len(tokens) >= 3

\* src is a letter followed by letters, digits or underscores
IsIdShaped(src) ==
  /\ Len(src) >= 1
  /\ IsAlpha(src[1])
  /\ \A i \in DOMAIN src : IsAlpha(src[i]) \/ IsDigit(src[i]) \/ src[i] = "_"

\* C7 as stated: each reserved word yields its keyword kind; any other
\* identifier-shaped text yields ID with the full text as lexeme.
\* (Violated: "true" and "false" are identifier-shaped, are not in the table
\* and yield BOOL_VAL.)
C7_Original ==
  FirstCallOver =>
    /\ \A p \in ReservedTable : input = p[1] => FirstTokenIs(p[2], input)
    /\ (IsIdShaped(input) /\ input \notin ReservedWords) => FirstTokenIs("ID", input)

\* C7 amended: each reserved word yields its keyword kind, "true" and "false"
\* yield BOOL_VAL, and any other identifier-shaped text yields ID with the
\* full text as lexeme.
C7_WordKinds ==
  FirstCallOver =>
    /\ \A p \in ReservedTable : input = p[1] => FirstTokenIs(p[2], input)
    /\ input \in BoolWords => FirstTokenIs("BOOL_VAL", input)
    /\ (IsIdShaped(input) /\ input \notin ReservedWords \cup BoolWords)
         => FirstTokenIs("ID", input)

\* C7 witness: a reserved word that has another reserved word as prefix was scanned
C7_Witness ==
  /\ input = <<"e","l","s","e","i","f">>
  /\ tokens # <<>>
  /\ tokens[1].type = "ELSEIF"

-----------------------------------------------------------------------------
(* Parser claims, over SpecParser *)

\* parse is over: it returned, threw, or cannot go on
ParseOver == pc \in {"done", "failed", "hang", "ub"}

\* C1: parse terminates; when the token at declaration level is neither TYPE,
\* FUN nor EOS the iteration of parse's loop ends in a syntax error.
\* (Violated: with such a token the loop body does nothing and the loop
\* goes round again in the same state.)
C1_StrayTokenIsSyntaxError ==
  [][(pc = "loop" /\ curr.type \notin {"TYPE", "FUN", "EOS"})
       => (pc' = "failed" /\ perr'.category = "SYNTAX")]_vars

\* C8: after a successful parse of a function declaration with n >= 1
\* parameters "id : type", the FunDecl's params list has n entries, in
\* source order, each with the parameter's id token and type token.
\* (Violated: params fills a local FunParam and never appends it.)
C8_ParamsRecorded ==
  \A rt \in {"int", "nil", "T"} : \A pl \in ParamLists \ {<<>>} :
    (pc = "done" /\ input = Text(FunWords(rt, pl, <<>>))) =>
      /\ Len(decls) = 1
      /\ Len(decls[1].params) = Len(pl)
      /\ \A i \in 1..Len(pl) :
           /\ decls[1].params[i].id.lexeme = Spell(pl[i][1])
           /\ decls[1].params[i].type.lexeme = Spell(pl[i][2])

RECURSIVE PathsNonEmpty(_)
\* every AssignStmt and IDRValue below node n has a path of length >= 1
PathsNonEmpty(n) ==
  CASE n.node = "TypeDecl" ->
         \A i \in DOMAIN n.vdecls : PathsNonEmpty(n.vdecls[i])
    [] n.node = "FunDecl" ->
         \A i \in DOMAIN n.stmts : PathsNonEmpty(n.stmts[i])
    [] n.node = "VarDeclStmt" -> PathsNonEmpty(n.expr)
    [] n.node = "AssignStmt" -> Len(n.lvalue_list) >= 1 /\ PathsNonEmpty(n.expr)
    [] n.node = "ReturnStmt" -> PathsNonEmpty(n.expr)
    [] n.node = "BasicIf" ->
         /\ PathsNonEmpty(n.expr)
         /\ \A i \in DOMAIN n.stmts : PathsNonEmpty(n.stmts[i])
    [] n.node = "IfStmt" ->
         /\ PathsNonEmpty(n.if_part)
         /\ \A i \in DOMAIN n.else_ifs : PathsNonEmpty(n.else_ifs[i])
         /\ \A i \in DOMAIN n.body_stmts : PathsNonEmpty(n.body_stmts[i])
    [] n.node = "WhileStmt" ->
         /\ PathsNonEmpty(n.expr)
         /\ \A i \in DOMAIN n.stmts : PathsNonEmpty(n.stmts[i])
    [] n.node = "ForStmt" ->
         /\ PathsNonEmpty(n.start)
         /\ PathsNonEmpty(n.end)
         /\ \A i \in DOMAIN n.stmts : PathsNonEmpty(n.stmts[i])
    [] n.node = "Expr" -> PathsNonEmpty(n.first) /\ PathsNonEmpty(n.rest)
    [] n.node = "SimpleTerm" -> PathsNonEmpty(n.rvalue)
    [] n.node = "ComplexTerm" -> PathsNonEmpty(n.expr)
    [] n.node = "CallExpr" ->
         \A i \in DOMAIN n.arg_list : PathsNonEmpty(n.arg_list[i])
    [] n.node = "NegatedRValue" -> PathsNonEmpty(n.expr)
    [] n.node = "IDRValue" -> Len(n.path) >= 1
    [] OTHER -> TRUE

\* C9: in every AST of a successful parse the path of every AssignStmt and of
\* every IDRValue has length >= 1 (the head identifier, then one identifier
\* per ".ID").
\* (Violated: rvalue reads the head identifier into a local and idrval only
\* appends the identifiers that follow a dot.)
C9_PathsNonEmpty ==
  pc = "done" => \A i \in DOMAIN decls : PathsNonEmpty(decls[i])

\* fun int f ( ) g ( a o1 b o2 c ) end, the chain written in the given form
ChainProgram(o1, o2, form) ==
  Text(FunWords("int", <<>>, <<"g", "(">> \o ChainWords(o1, o2, form) \o <<")">>))

\* term t is the SimpleTerm of the literal d
IsLiteral(t, d) ==
  /\ t.node = "SimpleTerm"
  /\ t.rvalue.node = "SimpleRValue"
  /\ t.rvalue.value.lexeme = <<d>>

\* e is the right-leaning tree of 1 o1 2 o2 3
IsRightChain(e, o1, o2) ==
  /\ e.node = "Expr" /\ IsLiteral(e.first, "1") /\ ~IsNull(e.op)
  /\ e.op.lexeme = Spell(o1)
  /\ e.rest.node = "Expr" /\ IsLiteral(e.rest.first, "2") /\ ~IsNull(e.rest.op)
  /\ e.rest.op.lexeme = Spell(o2)
  /\ e.rest.rest.node = "Expr" /\ IsLiteral(e.rest.rest.first, "3")

\* C10: parsing a o1 b o2 c gives an Expr with first = a, operator = o1 and
\* rest = the Expr of b o2 c.
\* (Violated: expr stores the operator through the null op pointer of the
\* Expr, so the parse of any operator chain has no defined result.)
C10_ChainIsRightLeaning ==
  \A o1 \in ChainOps : \A o2 \in ChainOps :
    (ParseOver /\ input = ChainProgram(o1, o2, "flat")) =>
      /\ pc = "done"
      /\ Len(decls) = 1 /\ Len(decls[1].stmts) = 1
      /\ Len(decls[1].stmts[1].arg_list) = 1
      /\ IsRightChain(decls[1].stmts[1].arg_list[1], o1, o2)

RECURSIVE ChildrenCreated(_)
\* every non-optional child of node n and of the nodes below it is a node
ChildrenCreated(n) ==
  CASE n.node = "TypeDecl" ->
         \A i \in DOMAIN n.vdecls : ChildrenCreated(n.vdecls[i])
    [] n.node = "FunDecl" ->
         \A i \in DOMAIN n.stmts : ChildrenCreated(n.stmts[i])
    [] n.node \in {"VarDeclStmt", "AssignStmt", "ReturnStmt", "ComplexTerm",
                   "NegatedRValue"} ->
         ~IsNull(n.expr) /\ ChildrenCreated(n.expr)
    [] n.node \in {"BasicIf", "WhileStmt"} ->
         /\ ~IsNull(n.expr) /\ ChildrenCreated(n.expr)
         /\ \A i \in DOMAIN n.stmts : ChildrenCreated(n.stmts[i])
    [] n.node = "IfStmt" ->
         /\ ~IsNull(n.if_part) /\ ChildrenCreated(n.if_part)
         /\ \A i \in DOMAIN n.else_ifs : ChildrenCreated(n.else_ifs[i])
         /\ \A i \in DOMAIN n.body_stmts : ChildrenCreated(n.body_stmts[i])
    [] n.node = "ForStmt" ->
         /\ ~IsNull(n.start) /\ ChildrenCreated(n.start)
         /\ ~IsNull(n.end) /\ ChildrenCreated(n.end)
         /\ \A i \in DOMAIN n.stmts : ChildrenCreated(n.stmts[i])
    [] n.node = "Expr" ->
         /\ ~IsNull(n.first) /\ ChildrenCreated(n.first)
         /\ IsNull(n.rest) \/ ChildrenCreated(n.rest)
    [] n.node = "SimpleTerm" -> ~IsNull(n.rvalue) /\ ChildrenCreated(n.rvalue)
    [] n.node = "CallExpr" ->
         \A i \in DOMAIN n.arg_list : ChildrenCreated(n.arg_list[i])
    [] OTHER -> TRUE

\* C11: the parser creates every non-optional child: a parse never stops at a
\* store into a child node that does not exist, and on a successful parse
\* every VarDeclStmt, AssignStmt, ReturnStmt, WhileStmt, ForStmt, BasicIf,
\* ComplexTerm and NegatedRValue has its Expr, every Expr its first term,
\* every SimpleTerm its RValue and every IfStmt its if_part.
\* (Violated: only args creates an Expr; everywhere else expr is handed the
\* null child pointer and stores through it.)
C11_ChildrenCreated ==
  /\ pc # "ub"
  /\ pc = "done" => \A i \in DOMAIN decls : ChildrenCreated(decls[i])

\* C12: when parse fails, the Program passed to it holds no declaration built
\* during the failed parse.
\* (Violated: parse appends each declaration to prog.decls as soon as it is
\* complete, and an exception raised later leaves them there.)
C12_NoPartialTree ==
  pc = "failed" => decls = <<>>

\* C13: a comma in a parameter list or in an argument list that is not
\* followed by another parameter or argument makes parse fail with a
\* SyntaxError.
\* (Violated: after a comma params accepts ")" and args accepts any token
\* that does not start an expression, so "f(x: int,)", "g(1,)" and
\* "g(1,,2)" parse without error.)
C13_DanglingCommaIsSyntaxError ==
  (ParseOver /\ input \in DanglingCommaTexts) =>
    (pc = "failed" /\ perr.category = "SYNTAX")

\* C14: in statement position an identifier followed by a token other than
\* ( = . makes parse fail with a SyntaxError.
\* (Violated: stmt reads the identifier, finds none of the three tokens and
\* returns without error and without appending a statement.)
C14_StrayIdIsSyntaxError ==
  \A b \in StrayIdBodies :
    (ParseOver /\ input = Text(FunWords("int", <<>>, b))) =>
      (pc = "failed" /\ perr.category = "SYNTAX")

\* C15: where an expression is required, a current token that cannot start
\* one makes parse fail with a SyntaxError positioned at that token.
\* (Violated: rvalue has no error branch, so expr goes on with an empty term;
\* in these places the Expr it then stores into was never created.)
C15_MissingExprIsSyntaxError ==
  \A b \in ExprlessBodies :
    (ParseOver /\ input = Text(FunWords("int", <<>>, b))) =>
      /\ pc = "failed"
      /\ perr.category = "SYNTAX"
      /\ perr.line = curr.line /\ perr.column = curr.column

\* C16: parsing a function declaration in which the ":" of a parameter is
\* missing fails with a SyntaxError whose line and column are those of the
\* token that follows the parameter's identifier, which is the last token
\* pulled, and not those of the "fun" that starts the declaration.
C16_ErrorAtTokenAfterId ==
  \A c \in MissingColonParams : \A nl \in 0..1 :
    (ParseOver /\ input = MissingColonText(c.words, nl)) =>
      /\ pc = "failed"
      /\ perr.category = "SYNTAX"
      /\ Len(tokens) = c.after
      /\ perr.line = tokens[c.after].line
      /\ perr.column = tokens[c.after].column
      /\ perr.found = tokens[c.after].lexeme
      /\ <<perr.line, perr.column>> # <<tokens[1].line, tokens[1].column>>

\* C16 witness: fun int f ( x ) end has failed at its ")"
C16_Witness ==
  /\ input = MissingColonText(<<"x">>, 0)
  /\ pc = "failed"
  /\ perr.category = "SYNTAX"
  /\ perr.line = 1 /\ perr.column = 15
  /\ perr.found = <<")">>

RECURSIVE LexRun(_, _, _)
\* the Lexer fields after n calls of next_token from ls that returned a token
LexRun(src, ls, n) ==
  IF n = 0 THEN ls ELSE LexRun(src, next_token(src, ls).ls, n - 1)

-----------------------------------------------------------------------------
(* Claims about string and character literals, over Spec *)

RECURSIVE StringClose(_, _)
\* the index of the first double quote at or after index i of src that is not
\* escaped, a backslash escaping the character after it; 0 when the line or
\* the text ends first
StringClose(src, i) ==
  IF i > Len(src) \/ src[i] = NL THEN 0
  ELSE IF src[i] = DQ THEN i
  ELSE IF src[i] = BS THEN StringClose(src, i + 2)
  ELSE StringClose(src, i + 1)

\* C18: a string literal ends at the first double quote that is not escaped
\* by a backslash: next_token returns one STRING_VAL whose lexeme is the text
\* between the two quotes and consumes nothing after the closing quote.
\* (Violated: after an escaped quote the loop appends one more character
\* without looking at it, so a closing quote that follows an escaped quote
\* is taken as content.)
C18_StringEndsAtUnescapedQuote ==
  (FirstCallOver /\ input \in StringTexts /\ StringClose(input, 2) > 0) =>
    /\ FirstTokenIs("STRING_VAL", SubSeq(input, 2, StringClose(input, 2) - 1))
    /\ (Len(tokens) = 1 /\ lexStatus = "ready") => lex.pos = StringClose(input, 2)

RECURSIVE StringLineEnd(_, _)
\* the index of the newline that ends the line at or after index i of src
\* before a closing double quote is met; 0 when a closing quote or the end
\* of the text comes first
StringLineEnd(src, i) ==
  IF i > Len(src) \/ src[i] = DQ THEN 0
  ELSE IF src[i] = NL THEN i
  ELSE IF src[i] = BS /\ i < Len(src) /\ src[i + 1] # NL
       THEN StringLineEnd(src, i + 2)
  ELSE StringLineEnd(src, i + 1)

\* C19: a string literal whose line ends before a closing double quote makes
\* next_token raise a lexical error reported on the line of the opening
\* quote, whatever the content, and the scan does not go beyond the newline.
\* (Violated: a newline that follows a backslash, or an escaped quote, is
\* appended to the lexeme and the scan goes on in the next line.)
C19_UnterminatedStringIsError ==
  (FirstCallOver /\ input \in StringTexts /\ StringLineEnd(input, 2) > 0) =>
    /\ tokens = <<>>
    /\ lexStatus = "error"
    /\ lexErr.category = "LEXER"
    /\ lexErr.line = 1
    /\ lex.pos <= StringLineEnd(input, 2)


\* the index of the first single quote of src (0 if none)
FirstSQ(src) ==
  IF \E k \in DOMAIN src : src[k] = SQ
  THEN CHOOSE k \in DOMAIN src : src[k] = SQ /\ \A j \in 1..(k - 1) : src[j] # SQ
  ELSE 0

\* src has, from index q, a single quote, one character that is not a single
\* quote, and a single quote
IsCharLiteralAt(src, q) ==
  /\ q + 2 <= Len(src)
  /\ src[q + 1] # SQ
  /\ src[q + 2] = SQ

\* C20: 'c' with c not a single quote is returned as one CHAR_VAL token with
\* lexeme c at the line and column of the opening quote; '' and 'c without a
\* closing single quote raise a lexical error on the line of the opening
\* quote.  (Violated for a literal that starts a line after a newline: its
\* column is 0, the column reset of C4.)
C20_CharLiteral ==
  (FirstCallOver /\ input \in CharTexts) =>
    IF IsCharLiteralAt(input, FirstSQ(input))
    THEN /\ tokens # <<>>
         /\ tokens[1].type = "CHAR_VAL"
         /\ tokens[1].lexeme = <<input[FirstSQ(input) + 1]>>
         /\ tokens[1].line = TrueLine(input, FirstSQ(input))
         /\ tokens[1].column = TrueColumn(input, FirstSQ(input))
    ELSE /\ tokens = <<>>
         /\ lexStatus = "error"
         /\ lexErr.category = "LEXER"
         /\ lexErr.line = TrueLine(input, FirstSQ(input))


-----------------------------------------------------------------------------
(* Claims about the characters that start no token or an invalid one, over
   Spec *)

\* the index of the first occurrence of the character c in src (0 if none)
FirstAt(src, c) ==
  IF \E k \in DOMAIN src : src[k] = c
  THEN CHOOSE k \in DOMAIN src : src[k] = c /\ \A j \in 1..(k - 1) : src[j] # c
  ELSE 0

\* the first call threw a lexical error and returned no token
FirstCallFailed ==
  /\ tokens = <<>>
  /\ lexStatus = "error"
  /\ lexErr.category = "LEXER"

\* C21: "!" followed by "=" is returned as NOT_EQUAL with lexeme "!=" at the
\* line and column of the "!"; "!" followed by anything else, end of input
\* included, raises a lexical error and no token is returned for it.
\* (Violated for a "!=" that starts a line after a newline: its column is 0,
\* the column reset of C4.)
C21_BangNeedsEqual ==
  (FirstCallOver /\ input \in BangTexts) =>
    IF FirstAt(input, "!") < Len(input) /\ input[FirstAt(input, "!") + 1] = "="
    THEN /\ tokens # <<>>
         /\ tokens[1] = Token("NOT_EQUAL", <<"!", "=">>,
                              TrueLine(input, FirstAt(input, "!")),
                              TrueColumn(input, FirstAt(input, "!")))
    ELSE FirstCallFailed


\* C22: a "." immediately followed by a digit raises a lexical error; it is
\* not returned as a DOT token.  (Violated: the first "." branch returns DOT
\* whatever follows, and the branch that tests the following digit is never
\* reached.)
C22_DotDigitIsError ==
  (/\ FirstCallOver
   /\ input \in NumberTexts
   /\ Len(input) >= 2
   /\ input[1] = "."
   /\ IsDigit(input[2])) => FirstCallFailed


\* src starts with a digit run and a "." that no digit follows
DigitsThenBareDot(src) ==
  \E n \in 1..(Len(src) - 1) :
    /\ \A k \in 1..n : IsDigit(src[k])
    /\ src[n + 1] = "."
    /\ (n + 1 = Len(src) \/ ~IsDigit(src[n + 2]))

\* C23: a digit run followed by a "." that no digit follows raises a lexical
\* error, and no DOUBLE_VAL whose lexeme ends with the "." is ever returned.
\* (Violated: when whitespace follows the "." the code returns the
\* DOUBLE_VAL "1.".)
C23_BareDotAfterDigitsIsError ==
  /\ (FirstCallOver /\ input \in NumberTexts /\ DigitsThenBareDot(input))
       => FirstCallFailed
  /\ \A i \in DOMAIN tokens :
       tokens[i].type = "DOUBLE_VAL" =>
         IsDigit(tokens[i].lexeme[Len(tokens[i].lexeme)])


\* src starts with a digit run that a letter immediately follows
DigitsThenLetter(src) ==
  \E n \in 1..(Len(src) - 1) :
    /\ \A k \in 1..n : IsDigit(src[k])
    /\ IsAlpha(src[n + 1])

\* C24: a digit run immediately followed by a letter raises a lexical error;
\* no INT_VAL token (and so no ID token after it) is returned for it.
C24_DigitsThenLetterIsError ==
  (FirstCallOver /\ input \in NumberTexts /\ DigitsThenLetter(input))
    => FirstCallFailed

\* the call on "11x" has thrown the error of the end of the else-if chain
C24_Witness ==
  /\ input = <<"1", "1", "x">>
  /\ FirstCallFailed
  /\ lexErr.msg = "Unknown token "
  /\ lexErr.line = 1
  /\ lexErr.column = 3


\* the index of the first character of src that starts no token
FirstUnknown(src) ==
  CHOOSE k \in DOMAIN src :
    src[k] \in UnknownChars /\ \A j \in 1..(k - 1) : src[j] \notin UnknownChars

\* C25: a character that starts no token raises a lexical error whose
\* message holds that character and whose line and column are those of the
\* character.  The fixed part of the message, "Unknown token ", holds none of
\* the characters of UnknownChars, so the character has to be in the text
\* appended to it.  (Violated: the appended text is copies of the character
\* with code 1, as many as the code of the offending character.)
C25_UnknownCharIsReported ==
  (FirstCallOver /\ input \in UnknownTexts) =>
    /\ FirstCallFailed
    /\ \E k \in DOMAIN lexErr.found : lexErr.found[k] = input[FirstUnknown(input)]
    /\ lexErr.line = TrueLine(input, FirstUnknown(input))
    /\ lexErr.column = TrueColumn(input, FirstUnknown(input))


-----------------------------------------------------------------------------
(* Claims about the trees of successful parses, over SpecParser *)

\* the token kind of a return type word
ReturnTypeKind(rt) ==
  CASE rt = "int" -> "INT_TYPE"
    [] rt = "nil" -> "NIL"
    [] OTHER -> "ID"

\* decls is one FunDecl rt f with no parameter and statements of the node
\* kinds listed in body
IsFunDecl(rt, body) ==
  /\ Len(decls) = 1
  /\ decls[1].node = "FunDecl"
  /\ decls[1].return_type.type = ReturnTypeKind(rt)
  /\ decls[1].return_type.lexeme = Spell(rt)
  /\ decls[1].id.type = "ID"
  /\ decls[1].id.lexeme = <<"f">>
  /\ decls[1].params = <<>>
  /\ Len(decls[1].stmts) = Len(body)
  /\ \A i \in DOMAIN body : decls[1].stmts[i].node = body[i]

\* C27: fun rt f() end with rt int, nil or a type name parses to one FunDecl
\* with that return type and id, no parameter and no statement; type T end
\* parses to one TypeDecl with no field; the call g() has no argument.
C27_EmptyProductions ==
  /\ \A rt \in {"int", "nil", "T"} :
       (ParseOver /\ input \in {Text(FunWords(rt, <<>>, <<>>)), CompactEmptyFun(rt)})
         => /\ pc = "done"
            /\ IsFunDecl(rt, <<>>)
  /\ (ParseOver /\ input = Text(<<"type", "T", "end">>))
       => /\ pc = "done"
          /\ Len(decls) = 1
          /\ decls[1].node = "TypeDecl"
          /\ decls[1].id.type = "ID"
          /\ decls[1].id.lexeme = <<"T">>
          /\ decls[1].vdecls = <<>>
  /\ (ParseOver /\ input = Text(FunWords("int", <<>>, <<"g", "(", ")">>)))
       => /\ pc = "done"
          /\ IsFunDecl("int", <<"CallExpr">>)
          /\ decls[1].stmts[1].function_id.lexeme = <<"g">>
          /\ decls[1].stmts[1].arg_list = <<>>

\* parse has returned for fun nil f() end
C27_Witness ==
  /\ input = CompactEmptyFun("nil")
  /\ pc = "done"
  /\ IsFunDecl("nil", <<>>)


\* the program fun int f ( ) g ( a ) end for the words a of one argument
ArgProgram(a) == Text(FunWords("int", <<>>, <<"g", "(">> \o a \o <<")">>))

\* the Expr of the only argument of the only call of the only declaration
TheArg == decls[1].stmts[1].arg_list[1]

\* n is a ComplexTerm that wraps an Expr
WrapsExpr(n) ==
  /\ ~IsNull(n)
  /\ n.node = "ComplexTerm"
  /\ ~IsNull(n.expr)
  /\ n.expr.node = "Expr"

\* C28: not e and ( e ) at the start of an expression give an Expr whose
\* first term is a ComplexTerm wrapping the Expr of e; not sets negated on the
\* enclosing Expr and a parenthesis leaves it unset; after not the inner Expr
\* takes the whole operator chain, after ( e ) the operator belongs to the
\* outer Expr.  (Violated: the Expr of the ComplexTerm is never created, and
\* parse ends in a store through a null pointer.)
C28_NotAndParenthesis ==
  (ParseOver /\ input \in {ArgProgram(a) : a \in PrefixedExprArgs}) =>
    /\ pc = "done"
    /\ WrapsExpr(TheArg.first)
    /\ TheArg.negated = (input \in {ArgProgram(<<"not", "x">>),
                                    ArgProgram(<<"not", "x", "and", "y">>)})
    /\ input = ArgProgram(<<"not", "x", "and", "y">>) =>
         /\ IsNull(TheArg.op)
         /\ ~IsNull(TheArg.first.expr.op)
         /\ TheArg.first.expr.op.type = "AND"
    /\ input = ArgProgram(<<"(", "x", ")", "and", "y">>) =>
         /\ ~IsNull(TheArg.op)
         /\ TheArg.op.type = "AND"
         /\ IsNull(TheArg.first.expr.op)


\* the indices of the tokens that begin a top-level declaration
DeclStarts(toks) == {i \in DOMAIN toks : toks[i].type \in {"TYPE", "FUN"}}

\* the i-th smallest element of the set of numbers S
Nth(S, i) == CHOOSE x \in S : Cardinality({y \in S : y < x}) = i - 1

\* the identifiers declared with var among the tokens lo..hi, in order
VarIds(toks, lo, hi) ==
  LET vs == {j \in lo..hi : toks[j].type = "VAR"} IN
  [j \in 1..Cardinality(vs) |-> toks[Nth(vs, j) + 1]]

\* the index of the last token of the i-th declaration
DeclEnd(toks, i) ==
  IF i < Cardinality(DeclStarts(toks)) THEN Nth(DeclStarts(toks), i + 1) - 1
  ELSE Len(toks)

\* d is the node built from the declaration that begins at token s and ends
\* at token e
BuiltFrom(d, toks, s, e) ==
  IF toks[s].type = "TYPE"
  THEN /\ d.node = "TypeDecl"
       /\ d.id = toks[s + 1]
       /\ [j \in DOMAIN d.vdecls |-> d.vdecls[j].id] = VarIds(toks, s, e)
  ELSE /\ d.node = "FunDecl"
       /\ d.return_type = toks[s + 1]
       /\ d.id = toks[s + 2]

-----------------------------------------------------------------------------
(* Claims about the helper functions of the Parser, over SpecParser *)

\* token kinds handed to eat
EatKinds == {"ID", "EOS", "END", "LPAREN", "RPAREN", "ASSIGN", "COLON", "TYPE", "FUN"}

\* what eat(t) may change: ps2 is the parser state eat(t) leaves from ps
EatFrame(src, ps, ps2, t) ==
  IF ps.curr.type = t
  THEN \* one call of next_token: its token, if it returns one, is the only
       \* new token and is the current token
       /\ ps2.ls = next_token(src, ps.ls).ls
       /\ IF ps2.status = "ok"
          THEN /\ ps2.toks = Append(ps.toks, next_token(src, ps.ls).tok)
               /\ ps2.curr = next_token(src, ps.ls).tok
          ELSE /\ ps2.toks = ps.toks
               /\ ps2.status \in {"error", "hang"}
               /\ ps2.status = "error" => ps2.err.category = "LEXER"
  ELSE /\ ps2.toks = ps.toks
       /\ ps2.ls = ps.ls
       /\ ps2.curr = ps.curr
       /\ ps2.status = "error"
       /\ ps2.err.category = "SYNTAX"
       /\ ps2.err.found = ps.curr.lexeme
       /\ ps2.err.line = ps.curr.line
       /\ ps2.err.column = ps.curr.column

\* C30: eat(t) pulls exactly one new token when the kind of the current token
\* is t; otherwise it pulls no token, leaves the current token as it is and
\* fails with a SYNTAX error that holds the lexeme, the line and the column of
\* the current token.  Checked for eat called with each kind of EatKinds in
\* every state parse is in between two declarations, and on the state every
\* failed parse is left in.
C30_EatFrame ==
  /\ (mode = "parser" /\ pc = "loop") =>
       \A t \in EatKinds :
         EatFrame(input, PState, eat(input, PState, t, "expecting "), t)
  /\ (pc = "failed" /\ perr.category = "SYNTAX") =>
       /\ tokens # <<>>
       /\ curr = tokens[Len(tokens)]
       /\ perr.found = curr.lexeme
       /\ perr.line = curr.line
       /\ perr.column = curr.column
       /\ lex = LexRun(input, LexerInit, Len(tokens))

\* eat(ID) of tdecl has failed on type end, with end still the current token
C30_Witness ==
  /\ input = Text(<<"type", "end">>)
  /\ pc = "failed"
  /\ perr.category = "SYNTAX"
  /\ perr.msg = "expecting variable ID "
  /\ perr.found = <<"e", "n", "d">>
  /\ curr.type = "END"
  /\ Len(tokens) = 2


-----------------------------------------------------------------------------
(* The round trip with the Printer, over SpecRoundTrip *)

\* a token without its position (a null Token* stays null)
TokenShape(t) == IF IsNull(t) THEN Null ELSE [type |-> t.type, lexeme |-> t.lexeme]

TokenShapes(ts) == [i \in DOMAIN ts |-> TokenShape(ts[i])]

RECURSIVE Shape(_)
\* a tree without the positions of its tokens: node variants, token kinds and
\* lexemes
Shape(n) ==
  IF IsNull(n) THEN Null
  ELSE CASE n.node = "TypeDecl" ->
              [node |-> n.node, id |-> TokenShape(n.id),
               vdecls |-> [i \in DOMAIN n.vdecls |-> Shape(n.vdecls[i])]]
         [] n.node = "FunDecl" ->
              [node |-> n.node, return_type |-> TokenShape(n.return_type),
               id |-> TokenShape(n.id),
               params |-> [i \in DOMAIN n.params |->
                             FunParam(TokenShape(n.params[i].id),
                                      TokenShape(n.params[i].type))],
               stmts |-> [i \in DOMAIN n.stmts |-> Shape(n.stmts[i])]]
         [] n.node = "VarDeclStmt" ->
              [node |-> n.node, id |-> TokenShape(n.id),
               type |-> TokenShape(n.type), expr |-> Shape(n.expr)]
         [] n.node = "AssignStmt" ->
              [node |-> n.node, lvalue_list |-> TokenShapes(n.lvalue_list),
               expr |-> Shape(n.expr)]
         [] n.node \in {"ReturnStmt", "ComplexTerm", "NegatedRValue"} ->
              [node |-> n.node, expr |-> Shape(n.expr)]
         [] n.node \in {"BasicIf", "WhileStmt"} ->
              [node |-> n.node, expr |-> Shape(n.expr),
               stmts |-> [i \in DOMAIN n.stmts |-> Shape(n.stmts[i])]]
         [] n.node = "IfStmt" ->
              [node |-> n.node, if_part |-> Shape(n.if_part),
               else_ifs |-> [i \in DOMAIN n.else_ifs |-> Shape(n.else_ifs[i])],
               body_stmts |-> [i \in DOMAIN n.body_stmts |-> Shape(n.body_stmts[i])]]
         [] n.node = "ForStmt" ->
              [node |-> n.node, var_id |-> TokenShape(n.var_id),
               start |-> Shape(n.start), end |-> Shape(n.end),
               stmts |-> [i \in DOMAIN n.stmts |-> Shape(n.stmts[i])]]
         [] n.node = "Expr" ->
              [node |-> n.node, negated |-> n.negated, first |-> Shape(n.first),
               op |-> TokenShape(n.op), rest |-> Shape(n.rest)]
         [] n.node = "SimpleTerm" ->
              [node |-> n.node, rvalue |-> Shape(n.rvalue)]
         [] n.node = "SimpleRValue" ->
              [node |-> n.node, value |-> TokenShape(n.value)]
         [] n.node = "NewRValue" ->
              [node |-> n.node, type_id |-> TokenShape(n.type_id)]
         [] n.node = "CallExpr" ->
              [node |-> n.node, function_id |-> TokenShape(n.function_id),
               arg_list |-> [i \in DOMAIN n.arg_list |-> Shape(n.arg_list[i])]]
         [] n.node = "IDRValue" ->
              [node |-> n.node, path |-> TokenShapes(n.path)]

\* the declarations of a Program without positions
ProgramShape(ds) == [i \in DOMAIN ds |-> Shape(ds[i])]

\* the round trip on the program has come to its end, whatever the end
RoundTripOver == pc \in {"reparsed", "failed", "hang", "ub"}

\* C26: for a syntactically valid program, the parse of the text the Printer
\* writes for the parsed Program succeeds and gives a Program structurally
\* equal to the first one (node variants, token kinds and lexemes; positions
\* ignored).  (Violated: with an operator, a parenthesis, a for loop or any
\* statement that holds an expression the first parse already stops in a
\* store through a null pointer; a path x.y is parsed to the path y, printed
\* as y and parsed again to the empty path.)
C26_RoundTrip ==
  RoundTripOver =>
    /\ pc = "reparsed"
    /\ second.status = "ok"
    /\ ProgramShape(second.decls) = ProgramShape(decls)


-----------------------------------------------------------------------------
(* Conditionals, over SpecParser *)

\* the IfStmt that is the only statement of the only declaration
TheIfStmt == decls[1].stmts[1]

\* the IfStmt parsed for the conditional c has c's clauses
IfStmtOf(c) ==
  /\ Len(decls) = 1 /\ Len(decls[1].stmts) = 1
  /\ TheIfStmt.node = "IfStmt"
  /\ ~IsNull(TheIfStmt.if_part)
  /\ Len(TheIfStmt.if_part.stmts) = 1
  /\ Len(TheIfStmt.else_ifs) = c.elseifs
  /\ Len(TheIfStmt.body_stmts) = (IF c.else THEN 1 ELSE 0)

\* C31: a successful parse of if c0 then S0 (elseif ci then Si)* (else Se)?
\* end yields an IfStmt with if_part (c0, S0), one BasicIf per elseif clause
\* in source order and the else statements (none without else); an elseif
\* or a second else after the else clause makes parse fail with a
\* SyntaxError.
\* (Violated: cond_stmt passes the null ifPart->expr to expr, so the parse of
\* every conditional is undefined behaviour before the clauses are reached.)
C31_Conditional ==
  \A c \in CondForms :
    (ParseOver /\ input = CondText(c)) =>
      IF c.tail = "none" THEN pc = "done" => IfStmtOf(c)
      ELSE pc = "failed" /\ perr.category = "SYNTAX"


-----------------------------------------------------------------------------
(* Lines, comments and the end of the stream, over Spec *)

\* C32: every token returned by next_token carries as its line 1 plus the
\* number of newline characters before the token's first character, whatever
\* precedes it: blank lines, comment lines, runs of comment lines, or string
\* literals on earlier lines.
\* (Violated: in a string literal the character after a backslash is read
\* without a look at it; when it is a newline the literal goes on over the
\* line end and line is not incremented.)
C32_LineCountsNewlines ==
  \A i \in DOMAIN tokens : tokens[i].line = TrueLine(input, starts[i])


RECURSIVE StripFrom(_, _, _, _)
\* src from index i on with every comment taken out, the newline that ends
\* it kept; md tells whether index i is in a comment, in a string literal
\* (after a backslash: "escaped"), in a char literal, or in neither; the
\* result holds the text (after acc) and md at the end of src
StripFrom(src, i, md, acc) ==
  IF i > Len(src) THEN [text |-> acc, mode |-> md]
  ELSE IF md = "comment" THEN
    IF src[i] = NL THEN StripFrom(src, i + 1, "code", Append(acc, NL))
    ELSE StripFrom(src, i + 1, "comment", acc)
  ELSE IF md = "code" /\ src[i] = HASH THEN StripFrom(src, i + 1, "comment", acc)
  ELSE StripFrom(src, i + 1,
         CASE md = "code" -> (IF src[i] = DQ THEN "string"
                              ELSE IF src[i] = SQ THEN "char" ELSE "code")
           [] md = "string" -> (IF src[i] = BS THEN "escaped"
                                ELSE IF src[i] \in {DQ, NL} THEN "code"
                                ELSE "string")
           [] md = "escaped" -> "string"
           [] md = "char" -> (IF src[i] = SQ THEN "code" ELSE "charend")
           [] md = "charend" -> "code",
         Append(acc, src[i]))

\* src without its comments
StripComments(src) == StripFrom(src, 1, "code", <<>>).text

\* every comment of src is ended by a newline
CommentsTerminated(src) == StripFrom(src, 1, "code", <<>>).mode # "comment"

RECURSIVE TokensUpToEOS(_, _, _)
\* next_token called from ls until it returns EOS, throws or hangs: how the
\* calls ended and the tokens returned (after toks)
TokensUpToEOS(src, ls, toks) ==
  LET r == next_token(src, ls) IN
  IF r.kind # "token" THEN [end |-> r.kind, toks |-> toks]
  ELSE IF r.tok.type = "EOS" THEN [end |-> "eos", toks |-> Append(toks, r.tok)]
  ELSE TokensUpToEOS(src, r.ls, Append(toks, r.tok))

\* kind, lexeme and line of each token
KindLexemeLine(toks) ==
  [i \in DOMAIN toks |->
     [type |-> toks[i].type, lexeme |-> toks[i].lexeme, line |-> toks[i].line]]

\* the tokens up to the first EOS
UpToEOS(toks) ==
  LET e == {i \in DOMAIN toks : toks[i].type = "EOS"} IN
  IF e = {} THEN toks ELSE SubSeq(toks, 1, CHOOSE i \in e : \A j \in e : i <= j)

\* the calls of next_token have reached EOS, thrown, or hang
LexRunOver == CountEOS(tokens) >= 1 \/ lexStatus # "ready"

\* C33: comments never produce or alter tokens: when every comment of the
\* input is ended by a newline, the kinds, lexemes and lines of the tokens
\* returned up to EOS are those returned for the input with each comment
\* taken out (its newline kept), and the calls end the same way.
C33_CommentsAlterNothing ==
  (LexRunOver /\ CommentsTerminated(input)) =>
    LET r == TokensUpToEOS(StripComments(input), LexerInit, <<>>) IN
    /\ r.end = (IF CountEOS(tokens) >= 1 THEN "eos" ELSE lexStatus)
    /\ KindLexemeLine(r.toks) = KindLexemeLine(UpToEOS(tokens))


\* C34: the EOS token carries the position just past the last character of
\* the input (the line of the last character unless the input ends with a
\* newline, the column one past it), and it carries that same line and
\* column on every repeated call of next_token at the end of the stream.
\* (Violated: the EOF branch calls read(), which increments column also at
\* the end of the stream, so each repeated call returns a column one larger.)
C34_EosPosition ==
  \A i \in DOMAIN tokens :
    tokens[i].type = "EOS" =>
      /\ tokens[i].line = TrueLine(input, Len(input) + 1)
      /\ tokens[i].column = TrueColumn(input, Len(input) + 1)


RECURSIVE SqueezeFrom(_, _, _, _)
\* src from index i on without the whitespace that is outside literals; md
\* tells whether index i is in a string literal (after a backslash:
\* "escaped"), in a char literal, or in neither
SqueezeFrom(src, i, md, acc) ==
  IF i > Len(src) THEN acc
  ELSE IF md = "code" /\ IsSpace(src[i]) THEN SqueezeFrom(src, i + 1, md, acc)
  ELSE SqueezeFrom(src, i + 1,
         CASE md = "code" -> (IF src[i] = DQ THEN "string"
                              ELSE IF src[i] = SQ THEN "char" ELSE "code")
           [] md = "string" -> (IF src[i] = BS THEN "escaped"
                                ELSE IF src[i] = DQ THEN "code" ELSE "string")
           [] md = "escaped" -> "string"
           [] md = "char" -> "charend"
           [] md = "charend" -> "code",
         Append(acc, src[i]))

\* src without comments and without the whitespace outside literals
Squeeze(src) == SqueezeFrom(StripComments(src), 1, "code", <<>>)

RECURSIVE Lexemes(_)
\* the lexemes of toks one after the other, those of string literals between
\* double quotes and those of char literals between single quotes
Lexemes(toks) ==
  IF toks = <<>> THEN <<>>
  ELSE (CASE toks[1].type = "STRING_VAL" -> <<DQ>> \o toks[1].lexeme \o <<DQ>>
          [] toks[1].type = "CHAR_VAL" -> <<SQ>> \o toks[1].lexeme \o <<SQ>>
          [] OTHER -> toks[1].lexeme)
       \o Lexemes(Tail(toks))

\* C35: the lexer loses, duplicates and reorders no source character: when
\* the calls of next_token have reached EOS, the lexemes of the returned
\* tokens in order (string and char lexemes between their quotes again) are
\* the input without comments and without the whitespace outside literals,
\* and every character of the input was read, each once (the stream only
\* moves forward, one character for each read).
C35_NoCharacterLost ==
  CountEOS(tokens) >= 1 =>
    /\ Lexemes(tokens) = Squeeze(input)
    /\ lex.pos = Len(input)

====
